---- MODULE Spec2Model ----
(***************************************************************************)
(* Model of the miDNI QR decoder of src/src/app/page.tsx (second version   *)
(* of the page, lines 463-1727): the primitive codecs (decodeC40,          *)
(* decodeMiDNIHeaderDate, decodeText, parseDERLength) as operators and     *)
(* decodeMiDNI as a state machine over its scanning cursor.                *)
(*                                                                         *)
(* Bytes are integers 0..255.  A Uint8Array is a sequence of bytes; the    *)
(* code's indices are 0-based, so data[i] is At(data, i).  A JavaScript    *)
(* string is the sequence of its UTF-16 code units.                        *)
(***************************************************************************)
EXTENDS Integers, Sequences, FiniteSets, TLC

(***************************************************************************)
(* JavaScript values                                                       *)
(***************************************************************************)

\* `undefined`, what data[i] yields for an index outside the array.
Undefined == -1

\* data[i] of a Uint8Array.
At(data, i) == IF i >= 0 /\ i < Len(data) THEN data[i + 1] ELSE Undefined

Min(a, b) == IF a < b THEN a ELSE b

Max(a, b) == IF a > b THEN a ELSE b

\* The relative index rule of TypedArray.prototype.slice.
RelIndex(i, len) == IF i < 0 THEN Max(len + i, 0) ELSE Min(i, len)

\* data.slice(from, to): never reads outside the array, it clamps.
Slice(data, from, to) ==
    LET f == RelIndex(from, Len(data))
        t == RelIndex(to, Len(data))
    IN  IF t <= f THEN << >> ELSE SubSeq(data, f + 1, t)

\* String.prototype.substring(a, b) for 0 <= a <= b.
Substring(s, a, b) == SubSeq(s, Min(a, Len(s)) + 1, Min(b, Len(s)))

\* White space and line terminators removed by String.prototype.trim.
IsWhiteSpace(c) ==
    \/ c \in {9, 10, 11, 12, 13, 32, 160, 5760, 8232, 8233, 8239, 8287, 12288, 65279}
    \/ (c >= 8192 /\ c <= 8202)

RECURSIVE TrimStart(_)
TrimStart(s) ==
    IF s = << >> THEN << >>
    ELSE IF IsWhiteSpace(Head(s)) THEN TrimStart(Tail(s)) ELSE s

RECURSIVE TrimEnd(_)
TrimEnd(s) ==
    IF s = << >> THEN << >>
    ELSE IF IsWhiteSpace(s[Len(s)]) THEN TrimEnd(SubSeq(s, 1, Len(s) - 1)) ELSE s

\* String.prototype.trim
Trim(s) == TrimEnd(TrimStart(s))

\* One hexadecimal digit 0..15 as a character; upper selects A-F over a-f.
HexDigit(d, upper) == IF d < 10 THEN 48 + d ELSE (IF upper THEN 55 ELSE 87) + d

\* b.toString(16).padStart(2, '0'), optionally .toUpperCase()
Hex2(b, upper) == << HexDigit(b \div 16, upper), HexDigit(b % 16, upper) >>

\* Array.from(bytes).map(hex2).join(sep), sep a string
RECURSIVE HexJoin(_, _, _)
HexJoin(bytes, upper, sep) ==
    IF bytes = << >> THEN << >>
    ELSE IF Len(bytes) = 1 THEN Hex2(bytes[1], upper)
    ELSE Hex2(bytes[1], upper) \o sep \o HexJoin(Tail(bytes), upper, sep)

\* `[` + s + `]`
Bracket(s) == << 91 >> \o s \o << 93 >>

\* n.toString() for 0 <= n, decimal digits as characters
RECURSIVE DecStr(_)
DecStr(n) == IF n < 10 THEN << 48 + n >> ELSE DecStr(n \div 10) \o << 48 + (n % 10) >>

\* s.padStart(w, '0')
RECURSIVE PadStart0(_, _)
PadStart0(s, w) == IF Len(s) >= w THEN s ELSE PadStart0(<< 48 >> \o s, w)

(***************************************************************************)
(* decodeC40                                                               *)
(***************************************************************************)

\* C40_TABLE[u]: 0 stands for the null entries (shift codes 0..2).
C40_TABLE(u) ==
    IF u < 3 THEN 0
    ELSE IF u = 3 THEN 32
    ELSE IF u <= 13 THEN 48 + (u - 4)
    ELSE 65 + (u - 14)

\* A decoder that emits the characters of a word in the order U1, U3, U2.
C40WordSwapped(word) ==
    LET U  == word - 1
        U1 == U \div 1600
        U2 == (U - (U1 * 1600)) \div 40
        U3 == U - (U1 * 1600) - (U2 * 40)
        ch(u) == IF C40_TABLE(u) # 0 THEN << C40_TABLE(u) >> ELSE << >>
    IN  IF U1 >= 0 /\ U1 < 40 /\ U2 >= 0 /\ U2 < 40 /\ U3 >= 0 /\ U3 < 40
        THEN ch(U1) \o ch(U3) \o ch(U2)
        ELSE << >>

\* The characters one 16-bit word contributes (word is neither sentinel).
C40Word(word) ==
    LET U  == word - 1
        U1 == U \div 1600
        U2 == (U - (U1 * 1600)) \div 40
        U3 == U - (U1 * 1600) - (U2 * 40)
        ch(u) == IF C40_TABLE(u) # 0 THEN << C40_TABLE(u) >> ELSE << >>
    IN  IF U1 >= 0 /\ U1 < 40 /\ U2 >= 0 /\ U2 < 40 /\ U3 >= 0 /\ U3 < 40
        THEN ch(U1) \o ch(U2) \o ch(U3)
        ELSE << >>

\* The while loop of decodeC40 from index i (0-based), before the trim.
RECURSIVE C40Loop(_, _)
C40Loop(bytes, i) ==
    IF ~(i < Len(bytes)) THEN << >>
    ELSE IF i + 1 >= Len(bytes) THEN << >>
    ELSE LET word == (At(bytes, i) * 256) + At(bytes, i + 1)
         IN  IF word = 65024 \/ word = 0 THEN << >>
             ELSE C40Word(word) \o C40Loop(bytes, i + 2)

decodeC40(bytes) == IF Len(bytes) = 0 THEN << >> ELSE Trim(C40Loop(bytes, 0))

(***************************************************************************)
(* parseInt                                                                *)
(***************************************************************************)

\* The value of character c as a digit, 36 when it is none.
DigitValue(c) ==
    IF c >= 48 /\ c <= 57 THEN c - 48
    ELSE IF c >= 65 /\ c <= 90 THEN c - 55
    ELSE IF c >= 97 /\ c <= 122 THEN c - 87
    ELSE 36

\* The longest prefix of s made of digits of the radix.
RECURSIVE DigitPrefix(_, _)
DigitPrefix(s, radix) ==
    IF s = << >> \/ DigitValue(Head(s)) >= radix THEN << >>
    ELSE << Head(s) >> \o DigitPrefix(Tail(s), radix)

RECURSIVE DigitsValue(_, _)
DigitsValue(s, radix) ==
    IF s = << >> THEN 0
    ELSE (DigitsValue(SubSeq(s, 1, Len(s) - 1), radix) * radix) + DigitValue(s[Len(s)])

\* parseInt(s, radix) for radix 10 or 16: leading white space, a sign, for
\* radix 16 a 0x/0X prefix, then the longest run of digits; NaN without one.
parseInt(s, radix) ==
    LET t    == TrimStart(s)
        neg  == t # << >> /\ Head(t) = 45
        u    == IF t # << >> /\ Head(t) \in {43, 45} THEN Tail(t) ELSE t
        v    == IF radix = 16 /\ Len(u) >= 2 /\ u[1] = 48 /\ u[2] \in {88, 120}
                THEN SubSeq(u, 3, Len(u)) ELSE u
        digs == DigitPrefix(v, radix)
    IN  IF digs = << >> THEN [nan |-> TRUE, val |-> 0]
        ELSE [nan |-> FALSE,
              val |-> IF neg THEN 0 - DigitsValue(digs, radix) ELSE DigitsValue(digs, radix)]

(***************************************************************************)
(* decodeMiDNIHeaderDate                                                   *)
(***************************************************************************)

IsLeapYear(y) == (y % 4 = 0 /\ y % 100 # 0) \/ y % 400 = 0

\* A decoder that takes February to have 28 days in every year.
DaysInMonthNoLeap(y, m) ==
    IF m = 2 THEN 28
    ELSE IF m \in {4, 6, 9, 11} THEN 30 ELSE 31

DaysInMonth(y, m) ==
    IF m = 2 THEN (IF IsLeapYear(y) THEN 29 ELSE 28)
    ELSE IF m \in {4, 6, 9, 11} THEN 30 ELSE 31

\* new Date(year, month - 1, day) gives back the same year, month and day.
DateExists(y, m, d) == d <= DaysInMonth(y, m)

\* A decoder that reads the eight digits as DD MM YYYY.
decodeMiDNIHeaderDateDayFirst(bytes) ==
    IF Len(bytes) # 3 THEN Bracket(HexJoin(bytes, TRUE, << 32 >>))
    ELSE
      LET value   == (bytes[1] * 65536) + (bytes[2] * 256) + bytes[3]
          dateStr == PadStart0(DecStr(value), 8)
          day     == parseInt(Substring(dateStr, 0, 2), 10).val
          month   == parseInt(Substring(dateStr, 2, 4), 10).val
          year    == parseInt(Substring(dateStr, 4, 8), 10).val
      IN  IF /\ Len(dateStr) = 8
             /\ month >= 1 /\ month <= 12 /\ day >= 1 /\ day <= 31
             /\ year >= 1900 /\ year <= 2100
             /\ DateExists(year, month, day)
          THEN PadStart0(DecStr(day), 2) \o << 45 >> \o PadStart0(DecStr(month), 2)
                 \o << 45 >> \o DecStr(year)
          ELSE Bracket(HexJoin(bytes, TRUE, << 32 >>))

decodeMiDNIHeaderDate(bytes) ==
    IF Len(bytes) # 3 THEN Bracket(HexJoin(bytes, TRUE, << 32 >>))
    ELSE
      LET value   == (bytes[1] * 65536) + (bytes[2] * 256) + bytes[3]
          dateStr == PadStart0(DecStr(value), 8)
          month   == parseInt(Substring(dateStr, 0, 2), 10).val
          day     == parseInt(Substring(dateStr, 2, 4), 10).val
          year    == parseInt(Substring(dateStr, 4, 8), 10).val
      IN  IF /\ Len(dateStr) = 8
             /\ month >= 1 /\ month <= 12 /\ day >= 1 /\ day <= 31
             /\ year >= 1900 /\ year <= 2100
             /\ DateExists(year, month, day)
          THEN PadStart0(DecStr(day), 2) \o << 45 >> \o PadStart0(DecStr(month), 2)
                 \o << 45 >> \o DecStr(year)
          ELSE Bracket(HexJoin(bytes, TRUE, << 32 >>))

(***************************************************************************)
(* parseDERLength                                                          *)
(***************************************************************************)

\* (length << 8) | b on 32-bit integers, for 0 <= length < 2^24: bit 23 of
\* length becomes the sign bit.
ShiftOr8(length, b) ==
    IF length < 8388608 THEN (length * 256) + b
    ELSE ((((length - 8388608) * 256) + b) - 2147483647) - 1

\* The for loop that reads the length octets data[offset+1..offset+n].
RECURSIVE ReadLengthOctets(_, _, _)
ReadLengthOctets(data, offset, n) ==
    IF n = 0 THEN 0
    ELSE ShiftOr8(ReadLengthOctets(data, offset, n - 1), At(data, offset + n))

Thrown(msg) == [ok |-> FALSE, error |-> msg, length |-> 0, newOffset |-> 0]

Returned(len, off) == [ok |-> TRUE, error |-> "", length |-> len, newOffset |-> off]

\* parseDERLength with the short form cut at 0x40 instead of 0x80.
parseDERLengthShortMask(data, offset) ==
    IF offset >= Len(data) THEN Thrown("OffsetOutOfRange")
    ELSE IF At(data, offset) = Undefined THEN Thrown("TypeError")
    ELSE
      LET firstByte      == At(data, offset)
          numLengthBytes == firstByte % 64
          length         == ReadLengthOctets(data, offset, numLengthBytes)
      IN  IF firstByte < 64 THEN Returned(firstByte, offset + 1)
          ELSE IF numLengthBytes = 0 THEN Thrown("IndefiniteLength")
          ELSE IF numLengthBytes > 4 THEN Thrown("TooManyLengthBytes")
          ELSE IF offset + numLengthBytes >= Len(data) THEN Thrown("NotEnoughLengthBytes")
          ELSE IF length > Len(data) THEN Thrown("LengthExceedsData")
          ELSE Returned(length, offset + numLengthBytes + 1)

\* parseDERLength without the check for the indefinite form.
parseDERLengthNoIndefiniteCheck(data, offset) ==
    IF offset >= Len(data) THEN Thrown("OffsetOutOfRange")
    ELSE IF At(data, offset) = Undefined THEN Thrown("TypeError")
    ELSE
      LET firstByte      == At(data, offset)
          numLengthBytes == firstByte % 128
          length         == ReadLengthOctets(data, offset, numLengthBytes)
      IN  IF firstByte < 128 THEN Returned(firstByte, offset + 1)
          ELSE IF numLengthBytes > 4 THEN Thrown("TooManyLengthBytes")
          ELSE IF offset + numLengthBytes >= Len(data) THEN Thrown("NotEnoughLengthBytes")
          ELSE IF length > Len(data) THEN Thrown("LengthExceedsData")
          ELSE Returned(length, offset + numLengthBytes + 1)

\* parseDERLength(data, offset): a returned {length, newOffset} or a throw.
\* A negative offset passes the range check, data[offset] is undefined and
\* firstByte.toString throws a TypeError.
parseDERLength(data, offset) ==
    IF offset >= Len(data) THEN Thrown("OffsetOutOfRange")
    ELSE IF At(data, offset) = Undefined THEN Thrown("TypeError")
    ELSE
      LET firstByte      == At(data, offset)
          numLengthBytes == firstByte % 128
          length         == ReadLengthOctets(data, offset, numLengthBytes)
      IN  IF firstByte < 128 THEN Returned(firstByte, offset + 1)
          ELSE IF numLengthBytes = 0 THEN Thrown("IndefiniteLength")
          ELSE IF numLengthBytes > 4 THEN Thrown("TooManyLengthBytes")
          ELSE IF offset + numLengthBytes >= Len(data) THEN Thrown("NotEnoughLengthBytes")
          ELSE IF length > Len(data) THEN Thrown("LengthExceedsData")
          ELSE Returned(length, offset + numLengthBytes + 1)

\* The indices parseDERLength(data, offset) reads with data[...].
DERReads(data, offset) ==
    IF offset >= Len(data) THEN {}
    ELSE IF At(data, offset) = Undefined \/ At(data, offset) < 128 THEN {offset}
    ELSE LET k == At(data, offset) % 128
         IN  IF k = 0 \/ k > 4 \/ offset + k >= Len(data) THEN {offset}
             ELSE offset .. (offset + k)

(***************************************************************************)
(* decodeText                                                              *)
(***************************************************************************)

IsCont(b) == b >= 128 /\ b <= 191

\* String.fromCodePoint: one code unit, or a surrogate pair above 0xFFFF.
CodeUnits(cp) ==
    IF cp < 65536 THEN << cp >>
    ELSE << 55296 + ((cp - 65536) \div 1024), 56320 + ((cp - 65536) % 1024) >>

\* new TextDecoder('utf-8', {fatal: true}).decode from index i (0-based):
\* the WHATWG UTF-8 decoder; ok is FALSE where decode throws.
RECURSIVE Utf8From(_, _)
Utf8From(bytes, i) ==
    IF i >= Len(bytes) THEN [ok |-> TRUE, str |-> << >>]
    ELSE
      LET b    == At(bytes, i)
          need == IF b < 128 THEN 0
                  ELSE IF b >= 194 /\ b <= 223 THEN 1
                  ELSE IF b >= 224 /\ b <= 239 THEN 2
                  ELSE IF b >= 240 /\ b <= 244 THEN 3
                  ELSE 4
          lo   == IF b = 224 THEN 160 ELSE IF b = 240 THEN 144 ELSE 128
          hi   == IF b = 237 THEN 159 ELSE IF b = 244 THEN 143 ELSE 191
          b2   == At(bytes, i + 1)
          b3   == At(bytes, i + 2)
          b4   == At(bytes, i + 3)
          wellFormed ==
              /\ need < 4
              /\ i + need < Len(bytes)
              /\ need >= 1 => (b2 >= lo /\ b2 <= hi)
              /\ need >= 2 => IsCont(b3)
              /\ need >= 3 => IsCont(b4)
          cp   == IF need = 0 THEN b
                  ELSE IF need = 1 THEN ((b % 32) * 64) + (b2 % 64)
                  ELSE IF need = 2 THEN ((b % 16) * 4096) + ((b2 % 64) * 64) + (b3 % 64)
                  ELSE ((b % 8) * 262144) + ((b2 % 64) * 4096) + ((b3 % 64) * 64) + (b4 % 64)
          rest == Utf8From(bytes, i + need + 1)
      IN  IF ~wellFormed THEN [ok |-> FALSE, str |-> << >>]
          ELSE IF ~rest.ok THEN rest
          ELSE [ok |-> TRUE, str |-> CodeUnits(cp) \o rest.str]

\* The decoder drops a leading byte order mark (ignoreBOM is false).
Utf8Strict(bytes) ==
    IF Len(bytes) >= 3 /\ bytes[1] = 239 /\ bytes[2] = 187 /\ bytes[3] = 191
    THEN Utf8From(bytes, 3)
    ELSE Utf8From(bytes, 0)

Includes(s, c) == \E k \in 1..Len(s) : s[k] = c

\* The C3 xx pairs the manual walk names: the accented Spanish letters,
\* with C3 18 taken as a damaged N-tilde; 0 for the others.
SpanishChar(byte2) ==
    IF byte2 = 24 THEN 209
    ELSE IF byte2 \in {145, 177, 129, 137, 141, 147, 154, 161, 169, 173, 179, 186, 188, 156}
    THEN 192 + (byte2 % 64)
    ELSE 0

\* Method 2, the while loop from index i (0-based).
RECURSIVE ManualWalk(_, _)
ManualWalk(bytes, i) ==
    IF ~(i < Len(bytes)) THEN << >>
    ELSE
      LET byte  == At(bytes, i)
          byte2 == At(bytes, i + 1)
          byte3 == At(bytes, i + 2)
          cp2   == ((byte % 32) * 64) + (byte2 % 64)
          cp3   == ((byte % 16) * 4096) + ((byte2 % 64) * 64) + (byte3 % 64)
      IN  IF byte < 128 THEN
            (IF (byte >= 32 /\ byte <= 126) \/ byte \in {9, 10, 13}
             THEN << byte >> ELSE << >>) \o ManualWalk(bytes, i + 1)
          ELSE IF byte = 195 /\ i + 1 < Len(bytes) THEN
            IF SpanishChar(byte2) # 0
            THEN << SpanishChar(byte2) >> \o ManualWalk(bytes, i + 2)
            ELSE IF IsCont(byte2) /\ cp2 >= 128 /\ cp2 <= 2047
            THEN << cp2 >> \o ManualWalk(bytes, i + 2)
            ELSE << byte >> \o ManualWalk(bytes, i + 1)
          ELSE IF byte >= 192 /\ byte <= 223 /\ i + 1 < Len(bytes) THEN
            IF IsCont(byte2) /\ cp2 >= 128 /\ cp2 <= 2047
            THEN << cp2 >> \o ManualWalk(bytes, i + 2)
            ELSE << byte >> \o ManualWalk(bytes, i + 1)
          ELSE IF byte >= 224 /\ byte <= 239 /\ i + 2 < Len(bytes) THEN
            IF IsCont(byte2) /\ IsCont(byte3) /\ cp3 >= 2048 /\ cp3 <= 65535
            THEN << cp3 >> \o ManualWalk(bytes, i + 3)
            ELSE << byte >> \o ManualWalk(bytes, i + 1)
          ELSE
            (IF byte >= 128 /\ byte <= 159 THEN << >> ELSE << byte >>)
              \o ManualWalk(bytes, i + 1)

\* windows-1252, the encoding the label 'iso-8859-1' selects in TextDecoder:
\* the code point of bytes 0x80..0x9F, by position.
Win1252High ==
    << 8364, 129, 8218, 402, 8222, 8230, 8224, 8225, 710, 8240, 352, 8249, 338, 141,
       381, 143, 144, 8216, 8217, 8220, 8221, 8226, 8211, 8212, 732, 8482, 353, 8250,
       339, 157, 382, 376 >>

\* Method 3: new TextDecoder('iso-8859-1').decode(bytes)
Latin1Decode(bytes) ==
    [k \in 1..Len(bytes) |->
        IF bytes[k] >= 128 /\ bytes[k] <= 159 THEN Win1252High[bytes[k] - 127] ELSE bytes[k]]

\* Method 4: printable ASCII, 160..255 and tab/LF/CR kept, the rest '?'.
AsciiExtended(bytes) ==
    Trim([k \in 1..Len(bytes) |->
        IF \/ (bytes[k] >= 32 /\ bytes[k] <= 126)
           \/ bytes[k] >= 160
           \/ bytes[k] \in {9, 10, 13}
        THEN bytes[k] ELSE 63])

\* A text decoder without method 1: it starts at the manual walk.
decodeTextNoUtf8(bytes) ==
    LET m2 == ManualWalk(bytes, 0)
        m3 == Latin1Decode(bytes)
        m4 == AsciiExtended(bytes)
    IN  IF Len(bytes) = 0 THEN << >>
        ELSE IF Trim(m2) # << >> THEN Trim(m2)
        ELSE IF Trim(m3) # << >> THEN Trim(m3)
        ELSE IF m4 # << >> /\ (\E k \in 1..Len(m4) : m4[k] # 63) THEN m4
        ELSE Bracket(HexJoin(bytes, FALSE, << 32 >>))

decodeText(bytes) ==
    LET m1 == Utf8Strict(bytes)
        m2 == ManualWalk(bytes, 0)
        m3 == Latin1Decode(bytes)
        m4 == AsciiExtended(bytes)
    IN  IF Len(bytes) = 0 THEN << >>
        ELSE IF m1.ok /\ Trim(m1.str) # << >> /\ ~Includes(m1.str, 65533) THEN Trim(m1.str)
        ELSE IF Trim(m2) # << >> THEN Trim(m2)
        ELSE IF Trim(m3) # << >> THEN Trim(m3)
        ELSE IF m4 # << >> /\ (\E k \in 1..Len(m4) : m4[k] # 63) THEN m4
        ELSE Bracket(HexJoin(bytes, FALSE, << 32 >>))

(***************************************************************************)
(* decodeMiDNI: payload dispatch                                           *)
(***************************************************************************)

\* obj[key] = val on a payload object (a function from field names).
Put(obj, key, val) ==
    [f \in (DOMAIN obj) \cup {key} |-> IF f = key THEN val ELSE obj[f]]

\* value.slice(0, n) rendered in lower-case hex starts with the given bytes.
StartsWithBytes(value, bytes) ==
    Len(value) >= Len(bytes) /\ SubSeq(value, 1, Len(bytes)) = bytes

\* The index of a 6-bit group in the base64 alphabet, as a character.
Base64Char(v) ==
    IF v < 26 THEN 65 + v
    ELSE IF v < 52 THEN 97 + (v - 26)
    ELSE IF v < 62 THEN 48 + (v - 52)
    ELSE IF v = 62 THEN 43 ELSE 47

\* btoa of the binary string of bytes.
RECURSIVE Base64(_)
Base64(bytes) ==
    IF bytes = << >> THEN << >>
    ELSE
      LET a  == bytes[1]
          b  == IF Len(bytes) >= 2 THEN bytes[2] ELSE 0
          c  == IF Len(bytes) >= 3 THEN bytes[3] ELSE 0
          c1 == Base64Char(a \div 4)
          c2 == Base64Char(((a % 4) * 16) + (b \div 16))
          c3 == IF Len(bytes) >= 2 THEN Base64Char(((b % 16) * 4) + (c \div 64)) ELSE 61
          c4 == IF Len(bytes) >= 3 THEN Base64Char(c % 64) ELSE 61
      IN  << c1, c2, c3, c4 >> \o
            (IF Len(bytes) > 3 THEN Base64(SubSeq(bytes, 4, Len(bytes))) ELSE << >>)

\* case 0x50: the image descriptor built from the value bytes.
ImageInfo(value) ==
    LET sniff  == Len(value) >= 4
        isJpeg == sniff /\ StartsWithBytes(value, << 255, 216 >>)
        isPng  == sniff /\ StartsWithBytes(value, << 137, 80, 78, 71 >>)
        format == IF isPng THEN "PNG" ELSE IF isJpeg THEN "JPEG" ELSE "JPEG2000"
        mime   == IF isPng THEN "image/png" ELSE IF isJpeg THEN "image/jpeg" ELSE "image/jp2"
    IN  [size |-> Len(value), format |-> format,
         hasDataUrl |-> Len(value) > 10,
         mimeType |-> IF Len(value) > 10 THEN mime ELSE "",
         base64 |-> IF Len(value) > 10 THEN Base64(value) ELSE << >>]

\* payload.f (a string field), '' when it is unset or empty: `if (!payload.f) ...`
TextOrEmpty(payload, f) == IF f \in DOMAIN payload THEN payload[f] ELSE << >>

\* Tags stored with decodeText(value): tag -> field.
TextField(tag) ==
    IF tag = 64 THEN "documentNumber"
    ELSE IF tag = 66 THEN "dateOfBirth"
    ELSE IF tag = 68 THEN "name"
    ELSE IF tag = 70 THEN "surnames"
    ELSE IF tag = 72 THEN "sex"
    ELSE IF tag = 76 THEN "expiryDate"
    ELSE IF tag = 96 THEN "address"
    ELSE IF tag = 98 THEN "birthPlace"
    ELSE IF tag = 100 THEN "nationality"
    ELSE IF tag = 102 THEN "parentsNames"
    ELSE IF tag = 128 THEN "dataExpiryDateTime"
    ELSE ""

\* A switch that stores nothing, whatever the tag.
DispatchNothing(payload, tag, value) == payload

\* The switch (tag) of the payload loop: the payload after the record.
\* The default branch only logs, the payload is left as it is.
Dispatch(payload, tag, value) ==
    IF TextField(tag) # "" THEN Put(payload, TextField(tag), decodeText(value))
    ELSE IF tag = 80 THEN Put(payload, "image", ImageInfo(value))
    ELSE IF tag = 112 THEN Put(payload, "isAdult", Len(value) > 0 /\ value[1] = 1)
    ELSE IF tag = 114
    THEN Put(payload, "address", TextOrEmpty(payload, "address") \o decodeText(value))
    ELSE IF tag \in {116, 118}
    THEN Put(payload, "address",
             TextOrEmpty(payload, "address") \o << 32 >> \o decodeText(value))
    ELSE IF tag \in {120, 122}
    THEN Put(payload, "birthPlace",
             TextOrEmpty(payload, "birthPlace") \o << 32 >> \o decodeText(value))
    ELSE payload

(***************************************************************************)
(* decodeMiDNI: header helpers                                             *)
(***************************************************************************)

\* The magic constant of a miDNI QR.
MagicConstant == 220

\* The version byte that selects the variable signer block.
VariableSignerVersion == 3

\* The tag of the signature record.
SignatureTag == 255

\* The least number of bytes decodeMiDNI accepts.
MinHeaderLength == 12

\* A signer block read without the test on the 6 characters.
SignerBlockV4NoMinimum(data, offset) ==
    LET signerDecoded == decodeC40(Slice(data, offset, offset + 4))
    IN  IF offset + 4 > Len(data)
        THEN [ok |-> FALSE, error |-> "SignerDataShort", text |-> << >>, size |-> 0]
        ELSE [ok |-> TRUE, error |-> "", text |-> signerDecoded, size |-> 4]

\* A version byte 0x03 read as every other version: 6 bytes, whatever the
\* size indicator says.
SignerBlockV4Fixed(data, offset) ==
    [ok |-> TRUE, error |-> "", text |-> decodeC40(Slice(data, offset, offset + 6)),
     size |-> 6]

\* The signer block of a header with version byte 0x03, read at offset:
\* whether it throws, the text kept and the bytes consumed.
SignerBlockV4(data, offset) ==
    LET signerDecoded == decodeC40(Slice(data, offset, offset + 4))
        sizeHex       == SubSeq(signerDecoded, Len(signerDecoded) - 1, Len(signerDecoded))
        certSize      == parseInt(sizeHex, 16)
        totalSignerFieldChars == 6 + certSize.val
        signerFieldC40Bytes   == ((totalSignerFieldChars + 2) \div 3) * 2
        fullSignerDecoded == decodeC40(Slice(data, offset, offset + signerFieldC40Bytes))
    IN  IF offset + 4 > Len(data)
        THEN [ok |-> FALSE, error |-> "SignerDataShort", text |-> << >>, size |-> 0]
        ELSE IF Len(signerDecoded) < 6
        THEN [ok |-> FALSE, error |-> "SignerTooShort", text |-> << >>, size |-> 0]
        ELSE IF ~certSize.nan /\ certSize.val > 0 /\ certSize.val <= 64
        THEN IF offset + signerFieldC40Bytes <= Len(data)
             THEN IF Len(fullSignerDecoded) >= 6 + certSize.val
                  THEN [ok |-> TRUE, error |-> "",
                        text |-> Substring(fullSignerDecoded, 0, 2)
                                   \o Substring(fullSignerDecoded, 2, 4)
                                   \o Substring(fullSignerDecoded, 6, 6 + certSize.val),
                        size |-> signerFieldC40Bytes]
                  ELSE [ok |-> TRUE, error |-> "", text |-> fullSignerDecoded,
                        size |-> signerFieldC40Bytes]
             ELSE [ok |-> TRUE, error |-> "", text |-> signerDecoded, size |-> 4]
        ELSE [ok |-> TRUE, error |-> "", text |-> signerDecoded, size |-> 4]

\* The fixed 6-byte signer block of every other version.
SignerBlockV3(data, offset) ==
    [ok |-> TRUE, error |-> "", text |-> decodeC40(Slice(data, offset, offset + 6)),
     size |-> 6]

\* A switch whose cases are one type late: 7 is labelled as 8 is.
DocumentInfoOneLate(docType) ==
    IF docType = 7 THEN [type |-> "completo", typeName |-> "DNI Completo"]
    ELSE IF docType = 8 THEN [type |-> "edad", typeName |-> "Verificacion de Edad"]
    ELSE [type |-> "desconocido", typeName |-> "Tipo N"]

\* The switch (docType) that labels the document.
DocumentInfo(docType) ==
    IF docType = 7 THEN [type |-> "simple", typeName |-> "DNI Simple"]
    ELSE IF docType = 8 THEN [type |-> "completo", typeName |-> "DNI Completo"]
    ELSE IF docType = 9 THEN [type |-> "edad", typeName |-> "Verificacion de Edad"]
    ELSE IF docType = 64 THEN [type |-> "edad", typeName |-> "Verificacion de Edad (64)"]
    ELSE [type |-> "desconocido", typeName |-> "Tipo N"]

(***************************************************************************)
(* Input buffers                                                           *)
(***************************************************************************)

\* The most chunks in the TLV stream after the fixed-signer header.
MaxChunks == 3

\* The most chunks after each of the other headers.
MaxAuxChunks == 1

\* Pieces of a TLV stream: single bytes (tags, short lengths, long-form
\* prefixes, text), 4-octet long-form lengths, whole records.
Chunks ==
    { << 0 >>, << 1 >>, << 64 >>, << 65 >>, << 128 >>, << 129 >>, << 133 >>, << 255 >>,
      << 132, 0, 0, 0, 1 >>,
      << 132, 255, 255, 255, 250 >>,
      << 132, 128, 0, 0, 0 >>,
      << 64, 1, 65 >>,
      << 64, 3, 65, 66, 67 >>,
      << 68, 2, 65, 66 >>,
      << 255, 2, 171, 205 >> }

RECURSIVE Streams(_)
Streams(n) ==
    IF n = 0 THEN { << >> }
    ELSE { << >> } \cup { c \o t : c \in Chunks, t \in Streams(n - 1) }

\* Issue and sign date 25-03-1957 (03251957 = 0x319EF5), type 7, category 9.
HeaderEnd == << 49, 158, 245, 49, 158, 245, 7, 9 >>

\* C40 of "ES".
CountryES == << 117, 129 >>

\* Version byte 0x02: magic, version, country, 6 signer bytes, dates, type.
HeaderFixed == << 220, 2 >> \o CountryES \o << 117, 158, 169, 102, 87, 129 >> \o HeaderEnd

\* Signer blocks for version byte 0x03: "ESPN01"+"A" (6 bytes), "ESPN00"
\* (size 0), "ES" and "ESP" (too short), "ESPN40" (64 characters that do not fit),
\* "ESPN01" followed by padding, "ESPN04"+"AAAA" (8 bytes), "ESPNPN" (a
\* size that is no hexadecimal number).
SignerBlocks ==
    { << 117, 158, 169, 102, 87, 129 >>,
      << 117, 158, 173, 100 >>,
      << 117, 158, 169, 105, 89, 191, 87, 129 >>,
      << 117, 158, 169, 101 >>,
      << 117, 129, 0, 0 >>,
      << 117, 158, 254, 0 >>,
      << 117, 158, 170, 5 >>,
      << 117, 158, 169, 102, 0, 0 >> }

HeadersVariable == { << 220, 3 >> \o CountryES \o sb \o HeaderEnd : sb \in SignerBlocks }

\* Cut-off headers and a header with a wrong magic byte.
HeadersBroken ==
    { SubSeq(HeaderFixed, 1, n) : n \in {0, 1, 5, 11, 12, 13, 17} }
      \cup { << 0 >> \o Tail(HeaderFixed) }

\* Buffers shaped like the built-in example: version byte 0x03, the signer
\* block "ESPN01" + "A", then at most two whole records and a signature record.
HeaderExample == << 220, 3 >> \o CountryES \o << 117, 158, 169, 102, 87, 129 >> \o HeaderEnd

ExampleRecords == { << >>, << 64, 1, 65 >>, << 64, 3, 65, 66, 67 >>, << 68, 2, 65, 66 >> }

ExampleBuffers ==
    { HeaderExample \o r \o s \o sig :
        r \in ExampleRecords, s \in ExampleRecords,
        sig \in { << 255, 0 >>, << 255, 2, 171, 205 >> } }

Buffers ==
    { HeaderFixed \o t : t \in Streams(MaxChunks) }
      \cup { h \o t : h \in HeadersVariable \cup HeadersBroken, t \in Streams(MaxAuxChunks) }
      \cup ExampleBuffers

(***************************************************************************)
(* decodeMiDNI as a state machine                                          *)
(***************************************************************************)

VARIABLES
    data,          \* the input Uint8Array
    pc,            \* the position in decodeMiDNI
    offset,        \* let offset
    header,        \* the header fields read so far
    documentInfo,  \* let documentInfo
    payload,       \* const payload
    tag,           \* const tag of the current record
    lengthInfo,    \* the outcome of the last parseDERLength call
    lengthAt,      \* the offset that call was given
    signature,     \* let signature
    loopExit,      \* how the payload loop was left
    iterations,    \* payload loop iterations begun, counted up to len(data) + 1
    ret,           \* "running", then "result" or "null"
    error,         \* the error caught by the catch block
    oobRead,       \* some data[i] was evaluated with i outside the buffer
    calls,         \* decodeMiDNI calls begun so far
    input,         \* the bytes the current call was handed
    earlier,       \* the first call's buffer and what it returned
    fn,            \* the primitive codec called on its own, "none" inside decodeMiDNI
    arg,           \* the bytes that codec is given
    plain,         \* the string those bytes were packed from, if they were
    out,           \* what it returned
    scannedData,       \* useState: the bytes of the last processed scan, or null
    decodedData,       \* useState: what decodeMiDNI returned for them, or null
    lastProcessedData, \* useState: the dataHash of the last processed scan
    handling,          \* a handleScan call is running decodeMiDNI
    dataHash,          \* const dataHash of that call
    scanText,          \* the string the latest handleScan call was given
    processedText,     \* the string of the last scan that was not ignored
    scans,             \* handleScan calls so far
    scanComplete,      \* QrScanner useState: the scanner is paused
    result,            \* QrScanner useState: the text detected last, or null
    handed,            \* the buffers given to onScan since the last handleRescan
    processed,         \* what the latest processQrResult call returned
    detections,        \* onDecodeResult calls so far
    allTlvItems        \* decodeQrData: const allTlvItems

vars == << data, pc, offset, header, documentInfo, payload, tag, lengthInfo, lengthAt,
           signature, loopExit, iterations, ret, error, oobRead, calls, input, earlier,
           fn, arg, plain, out, scannedData, decodedData, lastProcessedData, handling,
           dataHash, scanText, processedText, scans, scanComplete, result, handed,
           processed, detections, allTlvItems >>

\* The state of the page component (Home).
page == << scannedData, decodedData, lastProcessedData, handling, dataHash, scanText,
           processedText, scans >>

\* The state of the QrScanner component.
scanner == << scanComplete, result, handed, processed, detections >>

\* A primitive codec called on its own.
unit == << fn, arg, plain, out >>

\* The codec has not returned.
NoOutput == [done |-> FALSE, value |-> << >>]

\* The bytes were not packed from a string.
NoPlain == << Undefined >>

\* No codec is called on its own.
NoUnit ==
    /\ fn = "none"
    /\ arg = << >>
    /\ plain = NoPlain
    /\ out = NoOutput

\* What the caller of decodeMiDNI keeps between calls.
caller == << calls, input, earlier, page, scanner >>

NoHeader ==
    [magicConstant |-> Undefined, version |-> Undefined, country |-> << >>,
     signerAndCertRef |-> << >>, issueDate |-> << >>, signDate |-> << >>,
     docType |-> Undefined, docCategory |-> Undefined]

NoDocumentInfo == [type |-> "", typeName |-> ""]

NoSignature == [present |-> FALSE, length |-> 0, data |-> << >>]

NoCall == [ok |-> FALSE, error |-> "NotCalled", length |-> 0, newOffset |-> 0]

\* No call has returned yet.
NoEarlier ==
    [known |-> FALSE, data |-> << >>, others |-> 0,
     result |-> [ret |-> "running", header |-> NoHeader, documentInfo |-> NoDocumentInfo,
                 payload |-> << >>, signature |-> NoSignature]]

\* null, for a state that holds bytes or a string.
Null == << Undefined >>

\* A decoded structure that is null.
NullResult ==
    [ret |-> "null", header |-> NoHeader, documentInfo |-> NoDocumentInfo,
     payload |-> << >>, signature |-> NoSignature]

\* The page as useState initialises it: null, null, ''.
NoPage ==
    /\ scannedData = Null
    /\ decodedData = NullResult
    /\ lastProcessedData = << >>
    /\ handling = FALSE
    /\ dataHash = << >>
    /\ scanText = Null
    /\ processedText = Null
    /\ scans = 0

\* The scanner as useState initialises it: not paused, no result.
NoScanner ==
    /\ scanComplete = FALSE
    /\ result = Null
    /\ handed = << >>
    /\ processed = "none"
    /\ detections = 0

\* The locals of a decodeMiDNI call on entry.
Entry ==
    /\ pc = "start"
    /\ offset = 0
    /\ header = NoHeader
    /\ documentInfo = NoDocumentInfo
    /\ payload = << >>
    /\ tag = Undefined
    /\ lengthInfo = NoCall
    /\ lengthAt = 0
    /\ signature = NoSignature
    /\ loopExit = "none"
    /\ iterations = 0
    /\ ret = "running"
    /\ error = ""
    /\ oobRead = FALSE

Init ==
    /\ data \in Buffers
    /\ Entry
    /\ NoPage
    /\ NoScanner
    /\ allTlvItems = << >>
    /\ calls = 1
    /\ input = data
    /\ earlier = NoEarlier
    /\ NoUnit

\* catch (error) { return null; }
Catch(msg) ==
    /\ pc' = "done"
    /\ ret' = "null"
    /\ error' = msg

\* return { header, documentInfo, payload, signature }
Return ==
    /\ pc' = "done"
    /\ ret' = "result"
    /\ error' = ""

\* data[i] is evaluated for every i in idx.
Reading(idx) == oobRead' = (oobRead \/ \E i \in idx : i < 0 \/ i >= Len(data))

\* A loose length check: only the two bytes read unconditionally are asked for.
TooShortLoose(d) == Len(d) < 2

\* !data || data.length < 12
TooShort(d) == Len(d) < MinHeaderLength

\* if (!data || data.length < 12) throw
RejectShort ==
    /\ pc = "start"
    /\ TooShort(data)
    /\ Catch("Datos insuficientes")
    /\ UNCHANGED << unit, caller, allTlvItems, data, iterations, offset, header, documentInfo, payload, tag, lengthInfo,
                    lengthAt, signature, loopExit, oobRead >>

\* if (data[0] !== 0xDC) throw
RejectMagic ==
    /\ pc = "start"
    /\ ~TooShort(data)
    /\ At(data, 0) # MagicConstant
    /\ Reading({0})
    /\ Catch("No es un QR miDNI valido")
    /\ UNCHANGED << unit, caller, allTlvItems, data, iterations, offset, header, documentInfo, payload, tag, lengthInfo,
                    lengthAt, signature, loopExit >>

\* The preamble read without the test on the magic constant.
ReadPreambleAnyMagic ==
    /\ pc = "start"
    /\ ~TooShort(data)
    /\ Reading({0, 1})
    /\ header' = [header EXCEPT !.magicConstant = At(data, 0),
                                !.version = At(data, 1),
                                !.country = decodeC40(Slice(data, 2, 4))]
    /\ offset' = 4
    /\ pc' = "signer"
    /\ UNCHANGED << unit, caller, allTlvItems, data, iterations, documentInfo, payload, tag, lengthInfo, lengthAt, signature,
                    loopExit, ret, error >>

\* magicConstant, version and the 2-byte C40 country.
ReadPreamble ==
    /\ pc = "start"
    /\ ~TooShort(data)
    /\ At(data, 0) = MagicConstant
    /\ Reading({0, 1})
    /\ header' = [header EXCEPT !.magicConstant = At(data, 0),
                                !.version = At(data, 1),
                                !.country = decodeC40(Slice(data, 2, 4))]
    /\ offset' = 4
    /\ pc' = "signer"
    /\ UNCHANGED << unit, caller, allTlvItems, data, iterations, documentInfo, payload, tag, lengthInfo, lengthAt, signature,
                    loopExit, ret, error >>

\* The signer block the version byte selects.
SignerBlock ==
    IF header.version = VariableSignerVersion
    THEN SignerBlockV4(data, offset)
    ELSE SignerBlockV3(data, offset)

\* The signer block cannot be read: throw.
RejectSigner ==
    /\ pc = "signer"
    /\ ~SignerBlock.ok
    /\ Catch(SignerBlock.error)
    /\ UNCHANGED << unit, caller, allTlvItems, data, iterations, offset, header, documentInfo, payload, tag, lengthInfo,
                    lengthAt, signature, loopExit, oobRead >>

\* signerAndCertRef is set and offset += signerFieldSize.
ReadSigner ==
    /\ pc = "signer"
    /\ SignerBlock.ok
    /\ header' = [header EXCEPT !.signerAndCertRef = SignerBlock.text]
    /\ offset' = offset + SignerBlock.size
    /\ pc' = "dates"
    /\ UNCHANGED << unit, caller, allTlvItems, data, iterations, documentInfo, payload, tag, lengthInfo, lengthAt, signature,
                    loopExit, ret, error, oobRead >>

\* The two 3-byte dates, each a slice of the buffer.
ReadDates ==
    /\ pc = "dates"
    /\ header' = [header EXCEPT
                    !.issueDate = decodeMiDNIHeaderDate(Slice(data, offset, offset + 3)),
                    !.signDate = decodeMiDNIHeaderDate(Slice(data, offset + 3, offset + 6))]
    /\ offset' = offset + 6
    /\ pc' = "doctype"
    /\ UNCHANGED << unit, caller, allTlvItems, data, iterations, documentInfo, payload, tag, lengthInfo, lengthAt, signature,
                    loopExit, ret, error, oobRead >>

\* A decoder that takes the document type as a constraint: a type with no
\* case of its own is refused.
ReadDocTypeStrict ==
    /\ pc = "doctype"
    /\ Reading({offset, offset + 1})
    /\ IF At(data, offset) \in {7, 8, 9, 64}
       THEN /\ header' = [header EXCEPT !.docType = At(data, offset),
                                        !.docCategory = At(data, offset + 1)]
            /\ documentInfo' = DocumentInfo(At(data, offset))
            /\ offset' = offset + 2
            /\ pc' = "loop"
            /\ UNCHANGED << ret, error >>
       ELSE /\ Catch("UnknownDocType")
            /\ UNCHANGED << header, documentInfo, offset >>
    /\ UNCHANGED << unit, caller, allTlvItems, data, iterations, payload, tag, lengthInfo, lengthAt,
                    signature, loopExit >>

\* docType = data[offset++], docCategory = data[offset++], the label switch.
ReadDocType ==
    /\ pc = "doctype"
    /\ Reading({offset, offset + 1})
    /\ header' = [header EXCEPT !.docType = At(data, offset),
                                !.docCategory = At(data, offset + 1)]
    /\ documentInfo' = DocumentInfo(At(data, offset))
    /\ offset' = offset + 2
    /\ pc' = "loop"
    /\ UNCHANGED << unit, caller, allTlvItems, data, iterations, payload, tag, lengthInfo, lengthAt, signature, loopExit, ret,
                    error >>

\* The payload loop ends: while (offset < data.length), if (offset + 1 >= data.length) break
LoopExit ==
    /\ pc = "loop"
    /\ ~(offset < Len(data)) \/ offset + 1 >= Len(data)
    /\ pc' = "sig"
    /\ loopExit' = "exhausted"
    /\ UNCHANGED << unit, caller, allTlvItems, data, iterations, offset, header, documentInfo, payload, tag, lengthInfo,
                    lengthAt, signature, ret, error, oobRead >>

\* const tag = data[offset++]
ReadTag ==
    /\ pc = "loop"
    /\ offset < Len(data) /\ ~(offset + 1 >= Len(data))
    /\ Reading({offset})
    /\ tag' = At(data, offset)
    /\ offset' = offset + 1
    /\ iterations' = IF iterations <= Len(data) THEN iterations + 1 ELSE iterations
    /\ pc' = "tag"
    /\ UNCHANGED << unit, caller, allTlvItems, data, header, documentInfo, payload, lengthInfo, lengthAt,
                    signature, loopExit, ret, error >>

\* The signature tag stops the loop but the cursor is not taken back.
SignatureTagStopNoRewind ==
    /\ pc = "tag"
    /\ tag = SignatureTag
    /\ pc' = "sig"
    /\ loopExit' = "sigtag"
    /\ UNCHANGED << unit, caller, allTlvItems, data, iterations, offset, header, documentInfo, payload, tag, lengthInfo,
                    lengthAt, signature, ret, error, oobRead >>

\* if (tag === 0xFF) { offset--; break; }
SignatureTagStop ==
    /\ pc = "tag"
    /\ tag = SignatureTag
    /\ offset' = offset - 1
    /\ pc' = "sig"
    /\ loopExit' = "sigtag"
    /\ UNCHANGED << unit, caller, allTlvItems, data, iterations, header, documentInfo, payload, tag, lengthInfo, lengthAt,
                    signature, ret, error, oobRead >>

\* parseDERLength(data, offset) throws in the payload loop.
LengthThrows ==
    /\ pc = "tag"
    /\ tag # SignatureTag
    /\ ~parseDERLength(data, offset).ok
    /\ lengthInfo' = parseDERLength(data, offset)
    /\ lengthAt' = offset
    /\ Reading(DERReads(data, offset))
    /\ loopExit' = "throw"
    /\ Catch(parseDERLength(data, offset).error)
    /\ UNCHANGED << unit, caller, allTlvItems, data, iterations, offset, header, documentInfo, payload, tag, signature >>

\* lengthInfo = parseDERLength(data, offset); offset = lengthInfo.newOffset
ReadLength ==
    /\ pc = "tag"
    /\ tag # SignatureTag
    /\ parseDERLength(data, offset).ok
    /\ lengthInfo' = parseDERLength(data, offset)
    /\ lengthAt' = offset
    /\ Reading(DERReads(data, offset))
    /\ offset' = parseDERLength(data, offset).newOffset
    /\ pc' = "value"
    /\ UNCHANGED << unit, caller, allTlvItems, data, iterations, header, documentInfo, payload, tag, signature, loopExit, ret,
                    error >>

\* if (offset + lengthInfo.length > data.length) { console.warn(tag...); break; }
\* tag.toString throws when tag is undefined.
ValueOverrun ==
    /\ pc = "value"
    /\ offset + lengthInfo.length > Len(data)
    /\ IF tag = Undefined
       THEN Catch("TypeError") /\ loopExit' = "throw"
       ELSE pc' = "sig" /\ loopExit' = "overrun" /\ UNCHANGED << ret, error >>
    /\ UNCHANGED << unit, caller, allTlvItems, data, iterations, offset, header, documentInfo, payload, tag, lengthInfo,
                    lengthAt, signature, oobRead >>

\* value = data.slice(offset, offset + length); offset += length; switch (tag)
ReadValue ==
    /\ pc = "value"
    /\ ~(offset + lengthInfo.length > Len(data))
    /\ IF tag = Undefined
       THEN Catch("TypeError") /\ loopExit' = "throw" /\ UNCHANGED << offset, payload >>
       ELSE /\ payload' = Dispatch(payload, tag,
                                   Slice(data, offset, offset + lengthInfo.length))
            /\ offset' = offset + lengthInfo.length
            /\ pc' = "loop"
            /\ UNCHANGED << loopExit, ret, error >>
    /\ UNCHANGED << unit, caller, allTlvItems, data, iterations, header, documentInfo, tag, lengthInfo, lengthAt, signature,
                    oobRead >>

\* No signature tag at the cursor: the result has no signature.
NoSignatureTag ==
    /\ pc = "sig"
    /\ ~(offset < Len(data) /\ At(data, offset) = SignatureTag)
    /\ Reading(IF offset < Len(data) THEN {offset} ELSE {})
    /\ Return
    /\ UNCHANGED << unit, caller, allTlvItems, data, iterations, offset, header, documentInfo, payload, tag, lengthInfo,
                    lengthAt, signature, loopExit >>

\* if (offset < data.length && data[offset] === 0xFF) offset++
SkipSignatureTag ==
    /\ pc = "sig"
    /\ offset < Len(data) /\ At(data, offset) = SignatureTag
    /\ Reading({offset})
    /\ offset' = offset + 1
    /\ pc' = "siglen"
    /\ UNCHANGED << unit, caller, allTlvItems, data, iterations, header, documentInfo, payload, tag, lengthInfo, lengthAt,
                    signature, loopExit, ret, error >>

\* parseDERLength(data, offset) throws in the signature step.
SignatureLengthThrows ==
    /\ pc = "siglen"
    /\ ~parseDERLength(data, offset).ok
    /\ lengthInfo' = parseDERLength(data, offset)
    /\ lengthAt' = offset
    /\ Reading(DERReads(data, offset))
    /\ Catch(parseDERLength(data, offset).error)
    /\ UNCHANGED << unit, caller, allTlvItems, data, iterations, offset, header, documentInfo, payload, tag, signature,
                    loopExit >>

\* sigLengthInfo = parseDERLength(data, offset); offset = sigLengthInfo.newOffset;
\* the signature is kept when its value fits; return.
ReadSignature ==
    /\ pc = "siglen"
    /\ parseDERLength(data, offset).ok
    /\ LET sigLengthInfo == parseDERLength(data, offset)
           at            == sigLengthInfo.newOffset
       IN  /\ lengthInfo' = sigLengthInfo
           /\ offset' = at
           /\ signature' =
                IF at + sigLengthInfo.length <= Len(data)
                THEN [present |-> TRUE, length |-> sigLengthInfo.length,
                      data |-> HexJoin(Slice(data, at, at + sigLengthInfo.length),
                                       FALSE, << >>)]
                ELSE signature
    /\ lengthAt' = offset
    /\ Reading(DERReads(data, offset))
    /\ Return
    /\ UNCHANGED << unit, caller, allTlvItems, data, iterations, header, documentInfo, payload, tag, loopExit >>

Next ==
    \/ RejectShort
    \/ RejectMagic
    \/ ReadPreamble
    \/ RejectSigner
    \/ ReadSigner
    \/ ReadDates
    \/ ReadDocType
    \/ LoopExit
    \/ ReadTag
    \/ SignatureTagStop
    \/ LengthThrows
    \/ ReadLength
    \/ ValueOverrun
    \/ ReadValue
    \/ NoSignatureTag
    \/ SkipSignatureTag
    \/ SignatureLengthThrows
    \/ ReadSignature

Spec == Init /\ [][Next]_vars

(***************************************************************************)
(* Repeated calls: each scan hands decodeMiDNI a fresh Uint8Array          *)
(***************************************************************************)

\* The most chunks in the TLV stream of a buffer that is decoded repeatedly.
MaxRepeatChunks == 2

\* The most decodeMiDNI calls in a run.
MaxCalls == 3

\* The buffers the first call is given.
RepeatBuffers ==
    { HeaderFixed \o t : t \in Streams(MaxRepeatChunks) }
        \cup HeadersVariable \cup HeadersBroken

\* The buffers of the calls made in between.
OtherBuffers ==
    { HeaderFixed \o << 68, 2, 65, 66 >> \o << 255, 2, 171, 205 >>,
      SubSeq(HeaderFixed, 1, 11) }

\* What decodeMiDNI returns: null, or { header, documentInfo, payload, signature }.
Result ==
    IF ret = "result"
    THEN [ret |-> ret, header |-> header, documentInfo |-> documentInfo,
          payload |-> payload, signature |-> signature]
    ELSE [ret |-> ret, header |-> NoHeader, documentInfo |-> NoDocumentInfo,
          payload |-> << >>, signature |-> NoSignature]

\* The caller's record of the first return, and of the calls on other bytes.
Remember(d) ==
    LET first == IF earlier.known THEN earlier
                 ELSE [earlier EXCEPT !.known = TRUE, !.data = input, !.result = Result]
    IN  [first EXCEPT !.others = IF d # first.data THEN 1 ELSE first.others]

\* A further call whose payload object is the one of the call before.
DecodeAgainKeepPayload(d) ==
    /\ pc = "done"
    /\ calls < MaxCalls
    /\ earlier' = Remember(d)
    /\ calls' = calls + 1
    /\ UNCHANGED << unit, page, scanner, allTlvItems >>
    /\ data' = d
    /\ input' = d
    /\ pc' = "start"
    /\ offset' = 0
    /\ header' = NoHeader
    /\ documentInfo' = NoDocumentInfo
    /\ tag' = Undefined
    /\ lengthInfo' = NoCall
    /\ lengthAt' = 0
    /\ signature' = NoSignature
    /\ loopExit' = "none"
    /\ iterations' = 0
    /\ ret' = "running"
    /\ error' = ""
    /\ oobRead' = FALSE
    /\ UNCHANGED payload

\* decodeMiDNI(bytes) is called again on a fresh array holding d: every local
\* of the function starts anew.
DecodeAgain(d) ==
    /\ pc = "done"
    /\ calls < MaxCalls
    /\ earlier' = Remember(d)
    /\ calls' = calls + 1
    /\ UNCHANGED << unit, page, scanner, allTlvItems >>
    /\ data' = d
    /\ input' = d
    /\ pc' = "start"
    /\ offset' = 0
    /\ header' = NoHeader
    /\ documentInfo' = NoDocumentInfo
    /\ payload' = << >>
    /\ tag' = Undefined
    /\ lengthInfo' = NoCall
    /\ lengthAt' = 0
    /\ signature' = NoSignature
    /\ loopExit' = "none"
    /\ iterations' = 0
    /\ ret' = "running"
    /\ error' = ""
    /\ oobRead' = FALSE

\* The next scan: the same bytes as the first call, or other bytes.
Rescan ==
    \E d \in {Remember(<< >>).data} \cup OtherBuffers : DecodeAgain(d)

InitRepeat ==
    /\ data \in RepeatBuffers
    /\ Entry
    /\ NoPage
    /\ NoScanner
    /\ allTlvItems = << >>
    /\ calls = 1
    /\ input = data
    /\ earlier = NoEarlier
    /\ NoUnit

NextRepeat ==
    \/ Next
    \/ Rescan

SpecRepeat == InitRepeat /\ [][NextRepeat]_vars

(***************************************************************************)
(* The primitive codecs called on their own                                *)
(***************************************************************************)

\* The three big-endian bytes holding the low 24 bits of v.
Bytes3(v) == << (v \div 65536) % 256, (v \div 256) % 256, v % 256 >>

\* Packed dates MMDDYYYY around every limit the decoder tests, the largest
\* 24-bit value, and the dates 25-03-1957 and 22-07-1977.
DateValues ==
    { v \in { (m * 1000000) + (d * 10000) + y :
                m \in {0, 1, 2, 4, 12, 13, 16},
                d \in {0, 1, 28, 29, 30, 31, 32},
                y \in {1899, 1900, 1957, 2000, 2023, 2024, 2100, 2101} } :
        v <= 16777215 }
      \cup {16777215, 3251957, 7221977}

\* The byte arrays the date decoder is given: three bytes, or fewer.
DateInputs ==
    { Bytes3(v) : v \in DateValues } \cup { Bytes3(22071977), << >>, << 49, 158 >> }

\* The longest byte array decodeC40 is given.
MaxC40Bytes == 4

\* The longest string that is packed and decoded back.
MaxC40Chars == 4

\* Bytes that make sentinel words, words of every range of U1, U2 and U3,
\* and words above 64000.
C40Bytes == {0, 1, 18, 117, 129, 158, 250, 254, 255}

RECURSIVE SeqsUpTo(_, _)
SeqsUpTo(S, n) ==
    IF n = 0 THEN { << >> }
    ELSE { << >> } \cup { << x >> \o t : x \in S, t \in SeqsUpTo(S, n - 1) }

C40Inputs == SeqsUpTo(C40Bytes, MaxC40Bytes)

\* The 37 characters of the table, positions 3..39: space, 0-9, A-Z.
C40Alphabet ==
    << 32 >> \o [i \in 1..10 |-> 47 + i] \o [i \in 1..26 |-> 64 + i]

\* The table position 3..39 of a character of the alphabet.
C40Position(c) == CHOOSE u \in 3..39 : C40Alphabet[u - 2] = c

\* s packed three characters per 16-bit word, 1600*c1 + 40*c2 + c3 + 1, an
\* incomplete last group padded with shift code 0.
RECURSIVE encodeC40(_)
encodeC40(s) ==
    IF s = << >> THEN << >>
    ELSE
      LET c1   == C40Position(s[1])
          c2   == IF Len(s) >= 2 THEN C40Position(s[2]) ELSE 0
          c3   == IF Len(s) >= 3 THEN C40Position(s[3]) ELSE 0
          word == (1600 * c1) + (40 * c2) + c3 + 1
      IN  << word \div 256, word % 256 >> \o
            (IF Len(s) > 3 THEN encodeC40(SubSeq(s, 4, Len(s))) ELSE << >>)

\* Strings over space, 0, 9, A, E, S, Z with no leading or trailing space.
C40Strings ==
    { s \in SeqsUpTo({32, 48, 57, 65, 69, 83, 90}, MaxC40Chars) :
        s # << >> => (s[1] # 32 /\ s[Len(s)] # 32) }

\* decodeC40(arg) is called and returns.
CallC40 ==
    /\ fn = "decodeC40"
    /\ ~out.done
    /\ out' = [done |-> TRUE, value |-> decodeC40(arg)]
    /\ UNCHANGED << fn, arg, plain, caller, allTlvItems, data, pc, offset, header, documentInfo, payload,
                    tag, lengthInfo, lengthAt, signature, loopExit, iterations, ret, error,
                    oobRead >>

\* The longest byte array decodeText is given.
MaxTextBytes == 4

\* A control character, vertical tab, space, 'A', a C1 byte, no-break space,
\* the two bytes of n-tilde (C3 B1) and the three of U+FFFD (EF BF BD).
TextBytes == {1, 11, 32, 65, 128, 160, 195, 177, 239, 191, 189}

TextInputs == SeqsUpTo(TextBytes, MaxTextBytes)

\* decodeText(arg) is called and returns.
CallText ==
    /\ fn = "decodeText"
    /\ ~out.done
    /\ out' = [done |-> TRUE, value |-> decodeText(arg)]
    /\ UNCHANGED << fn, arg, plain, caller, allTlvItems, data, pc, offset, header, documentInfo, payload,
                    tag, lengthInfo, lengthAt, signature, loopExit, iterations, ret, error,
                    oobRead >>

\* decodeMiDNIHeaderDate(arg) is called and returns.
CallHeaderDate ==
    /\ fn = "decodeMiDNIHeaderDate"
    /\ ~out.done
    /\ out' = [done |-> TRUE, value |-> decodeMiDNIHeaderDate(arg)]
    /\ UNCHANGED << fn, arg, plain, caller, allTlvItems, data, pc, offset, header, documentInfo, payload, tag,
                    lengthInfo, lengthAt, signature, loopExit, iterations, ret, error,
                    oobRead >>

InitCodec ==
    /\ data = << >>
    /\ Entry
    /\ NoPage
    /\ NoScanner
    /\ allTlvItems = << >>
    /\ calls = 0
    /\ input = << >>
    /\ earlier = NoEarlier
    /\ out = NoOutput
    /\ \/ fn = "decodeMiDNIHeaderDate" /\ arg \in DateInputs /\ plain = NoPlain
       \/ fn = "decodeC40" /\ arg \in C40Inputs /\ plain = NoPlain
       \/ fn = "decodeC40" /\ plain \in C40Strings /\ arg = encodeC40(plain)
       \/ fn = "decodeText" /\ arg \in TextInputs /\ plain = NoPlain

NextCodec ==
    \/ CallHeaderDate
    \/ CallC40
    \/ CallText

SpecCodec == InitCodec /\ [][NextCodec]_vars

(***************************************************************************)
(* Reference reading of a TLV stream, from the format and not from the     *)
(* decoder: a record is a tag, a DER length (short form, or 1..4 unsigned  *)
(* big-endian octets) and exactly that many value bytes inside the buffer. *)
(***************************************************************************)

NoRecord == [ok |-> FALSE, tag |-> 0, valueAt |-> 0, length |-> 0, next |-> 0]

\* The unsigned value of the n octets d[at..at+n-1]; n <= 3, or n = 4 with
\* a first octet below 0x80.
RECURSIVE BigEndian(_, _, _)
BigEndian(d, at, n) ==
    IF n = 0 THEN 0 ELSE (BigEndian(d, at, n - 1) * 256) + At(d, at + n - 1)

\* The well-formed record that starts at index o of d, if there is one.
RecordAt(d, o) ==
    LET b == At(d, o + 1)
        k == b % 128
        v == BigEndian(d, o + 2, k)
    IN  IF o < 0 \/ o + 1 >= Len(d) THEN NoRecord
        ELSE IF b < 128
        THEN IF o + 2 + b <= Len(d)
             THEN [ok |-> TRUE, tag |-> At(d, o), valueAt |-> o + 2, length |-> b,
                   next |-> o + 2 + b]
             ELSE NoRecord
        ELSE IF k \in 1..4 /\ o + 1 + k < Len(d) /\ (k = 4 => At(d, o + 2) < 128)
        THEN IF o + 2 + k + v <= Len(d)
             THEN [ok |-> TRUE, tag |-> At(d, o), valueAt |-> o + 2 + k, length |-> v,
                   next |-> o + 2 + k + v]
             ELSE NoRecord
        ELSE NoRecord

\* The records of d from index o to the end of the buffer; ok when the
\* bytes are exactly a sequence of well-formed records.
RECURSIVE RecordsFrom(_, _)
RecordsFrom(d, o) ==
    IF o = Len(d) THEN [ok |-> TRUE, recs |-> << >>]
    ELSE IF ~RecordAt(d, o).ok THEN [ok |-> FALSE, recs |-> << >>]
    ELSE LET rest == RecordsFrom(d, RecordAt(d, o).next)
         IN  [ok |-> rest.ok, recs |-> << RecordAt(d, o) >> \o rest.recs]

\* The header of d is one decodeMiDNI accepts, and d holds all of it.
SignerBlockOf(d) ==
    IF At(d, 1) = VariableSignerVersion THEN SignerBlockV4(d, 4) ELSE SignerBlockV3(d, 4)

PayloadStart(d) == 4 + SignerBlockOf(d).size + 8

ValidHeader(d) ==
    /\ Len(d) >= 12
    /\ At(d, 0) = 220
    /\ SignerBlockOf(d).ok
    /\ PayloadStart(d) <= Len(d)

\* The payload the first n records give, dispatched in order.
RECURSIVE PayloadOf(_, _, _)
PayloadOf(d, recs, n) ==
    IF n = 0 THEN << >>
    ELSE Dispatch(PayloadOf(d, recs, n - 1), recs[n].tag,
                  SubSeq(d, recs[n].valueAt + 1, recs[n].valueAt + recs[n].length))

\* The TLV stream of the buffer, after its header.
Stream == RecordsFrom(data, PayloadStart(data))

\* The stream is well-formed records and the last one is tagged 0xFF.
EndsWithSignatureRecord ==
    /\ ValidHeader(data)
    /\ Stream.ok
    /\ Stream.recs # << >>
    /\ Stream.recs[Len(Stream.recs)].tag = 255

\* What the claim asks of the result for such a stream.
TrailingRecordIsSignature ==
    LET n    == Len(Stream.recs)
        last == Stream.recs[n]
    IN  /\ ret = "result"
        /\ signature.present
        /\ signature.length = last.length
        /\ signature.data =
             HexJoin(SubSeq(data, last.valueAt + 1, last.valueAt + last.length),
                     FALSE, << >>)
        /\ payload = PayloadOf(data, Stream.recs, n - 1)

(***************************************************************************)
(* A second scan that differs in the document type and category            *)
(***************************************************************************)

\* Document types: the ones with a case, and others.
DocTypes == {7, 8, 9, 64, 0, 10, 255}

\* Document categories: the expected one and others.
DocCategories == {9, 0}

\* d with its docType and docCategory bytes replaced by t and c.
Retyped(d, t, c) ==
    [d EXCEPT ![PayloadStart(d) - 1] = t, ![PayloadStart(d)] = c]

\* After the first call, decodeMiDNI is called on a buffer that differs from
\* the first one in the docType and docCategory bytes only.
DecodeRetyped ==
    /\ calls = 1
    /\ ValidHeader(data)
    /\ \E t \in DocTypes, c \in DocCategories : DecodeAgain(Retyped(data, t, c))

NextRetype ==
    \/ Next
    \/ DecodeRetyped

SpecRetype == InitRepeat /\ [][NextRetype]_vars

(***************************************************************************)
(* The page: handleScan and the state it keeps                             *)
(***************************************************************************)

\* The most handleScan calls in a run.
MaxScans == 2

\* bytes[i] = data.charCodeAt(i) & 0xFF
ScanBytes(text) == [i \in 1..Len(text) |-> text[i] % 256]

\* data.length + '-' + data.slice(0, 20)
DataHash(text) == DecStr(Len(text)) \o << 45 >> \o Slice(text, 0, 20)

\* The string with another last character.
OtherEnding(text) ==
    IF text = << >> THEN << 65 >>
    ELSE SubSeq(text, 1, Len(text) - 1) \o << (text[Len(text)] + 1) % 256 >>

\* The string with a first character above U+00FF that has the same low byte.
HighFirst(text) ==
    IF text = << >> THEN << 256 >> ELSE << text[1] + 256 >> \o Tail(text)

\* The strings a scan can hand over: any buffer, one character a byte, for
\* the first scan; then the same string again, a string that differs from
\* it in the last character or in the high byte of the first, or other ones.
ScanTexts ==
    IF scanText = Null THEN RepeatBuffers
    ELSE { scanText, OtherEnding(scanText), HighFirst(scanText) } \cup OtherBuffers

\* A handleScan that keeps the decoded structure it has when the decode fails.
HandleScanReturnKeepDecoded ==
    /\ handling
    /\ pc = "done"
    /\ scannedData' = data
    /\ lastProcessedData' = dataHash
    /\ decodedData' = IF ret = "null" THEN decodedData ELSE Result
    /\ processedText' = scanText
    /\ handling' = FALSE
    /\ UNCHANGED << unit, scanner, allTlvItems, calls, input, earlier, dataHash, scanText, scans,
                    data, pc, offset, header, documentInfo, payload, tag, lengthInfo,
                    lengthAt, signature, loopExit, iterations, ret, error, oobRead >>

\* handleScan(data) up to the call of decodeMiDNI: a scan whose dataHash is
\* lastProcessedData returns at once; any other is turned into bytes and
\* decodeMiDNI(bytes) is entered.
HandleScan ==
    \E text \in ScanTexts :
        /\ ~handling
        /\ pc \in {"idle", "done"}
        /\ scans < MaxScans
        /\ scans' = scans + 1
        /\ scanText' = text
        /\ IF DataHash(text) = lastProcessedData
           THEN UNCHANGED << handling, dataHash, calls, input, data, pc, offset, header,
                             documentInfo, payload, tag, lengthInfo, lengthAt, signature,
                             loopExit, iterations, ret, error, oobRead >>
           ELSE /\ handling' = TRUE
                /\ dataHash' = DataHash(text)
                /\ calls' = calls + 1
                /\ data' = ScanBytes(text)
                /\ input' = ScanBytes(text)
                /\ pc' = "start"
                /\ offset' = 0
                /\ header' = NoHeader
                /\ documentInfo' = NoDocumentInfo
                /\ payload' = << >>
                /\ tag' = Undefined
                /\ lengthInfo' = NoCall
                /\ lengthAt' = 0
                /\ signature' = NoSignature
                /\ loopExit' = "none"
                /\ iterations' = 0
                /\ ret' = "running"
                /\ error' = ""
                /\ oobRead' = FALSE
        /\ UNCHANGED << unit, scanner, allTlvItems, earlier, scannedData, decodedData,
                        lastProcessedData, processedText >>

\* decodeMiDNI has returned: setScannedData(bytes), setLastProcessedData(dataHash)
\* and setDecodedData(decoded) take effect together when handleScan returns.
HandleScanReturn ==
    /\ handling
    /\ pc = "done"
    /\ scannedData' = data
    /\ lastProcessedData' = dataHash
    /\ decodedData' = Result
    /\ processedText' = scanText
    /\ handling' = FALSE
    /\ UNCHANGED << unit, scanner, allTlvItems, calls, input, earlier, dataHash, scanText, scans,
                    data, pc, offset, header, documentInfo, payload, tag, lengthInfo,
                    lengthAt, signature, loopExit, iterations, ret, error, oobRead >>

\* The page after construction: nothing scanned, no decode entered.
InitPage ==
    /\ data = << >>
    /\ pc = "idle"
    /\ offset = 0
    /\ header = NoHeader
    /\ documentInfo = NoDocumentInfo
    /\ payload = << >>
    /\ tag = Undefined
    /\ lengthInfo = NoCall
    /\ lengthAt = 0
    /\ signature = NoSignature
    /\ loopExit = "none"
    /\ iterations = 0
    /\ ret = "running"
    /\ error = ""
    /\ oobRead = FALSE
    /\ calls = 0
    /\ input = << >>
    /\ earlier = NoEarlier
    /\ NoUnit
    /\ NoPage
    /\ NoScanner
    /\ allTlvItems = << >>

NextPage ==
    \/ Next
    \/ HandleScan
    \/ HandleScanReturn

SpecPage == InitPage /\ [][NextPage]_vars

(***************************************************************************)
(* The earlier decoder: decodeQrData                                       *)
(***************************************************************************)

\* The most chunks in the TLV stream after the ASCII header.
MaxOldChunks == 2

\* The most records the model lets allTlvItems hold.
MaxItems == 12

\* Magic, version, "ES", "ES", "PN", the certificate size "00", two dates
\* (25-03-25), type 7, category 9.
HeaderAscii ==
    << 220, 3, 69, 83, 69, 83, 80, 78, 48, 48 >> \o << 25, 3, 25, 25, 3, 25 >> \o << 7, 9 >>

\* The same with a 2-byte certificate reference, with a size that is no
\* number, with a size beyond the buffer, and cut off.
HeadersAscii ==
    { << 220, 3, 69, 83, 69, 83, 80, 78, 48, 50, 171, 205 >>
        \o << 25, 3, 25, 25, 3, 25 >> \o << 7, 9 >>,
      << 220, 3, 69, 83, 69, 83, 80, 78, 90, 90 >> \o << 25, 3, 25, 25, 3, 25 >> \o << 7, 9 >>,
      << 220, 3, 69, 83, 69, 83, 80, 78, 57, 57 >> \o << 25, 3, 25, 25, 3, 25 >> \o << 7, 9 >>,
      SubSeq(HeaderAscii, 1, 11),
      SubSeq(HeaderAscii, 1, 13) }

OldBuffers ==
    { HeaderAscii \o t : t \in Streams(MaxOldChunks) }
      \cup { h \o t : h \in HeadersAscii, t \in Streams(MaxAuxChunks) }

\* n.toString() for any integer n.
SignedDecStr(n) == IF n < 0 THEN << 45 >> \o DecStr(0 - n) ELSE DecStr(n)

\* n.toString(16) for 0 <= n.
RECURSIVE HexStr(_)
HexStr(n) ==
    IF n < 16 THEN << HexDigit(n, FALSE) >>
    ELSE HexStr(n \div 16) \o << HexDigit(n % 16, FALSE) >>

\* formatDate(bytes)
formatDate(bytes) ==
    IF Len(bytes) # 3 THEN << 73, 110, 118, 97, 108, 105, 100, 32, 100, 97, 116, 101 >>
    ELSE DecStr(2000 + bytes[1]) \o << 45 >> \o PadStart0(DecStr(bytes[2]), 2)
           \o << 45 >> \o PadStart0(DecStr(bytes[3]), 2)

\* new TextDecoder('utf-8').decode from index i (0-based): an ill-formed
\* sequence gives U+FFFD for its longest well-formed start.
RECURSIVE Utf8LossyFrom(_, _)
Utf8LossyFrom(bytes, i) ==
    IF i >= Len(bytes) THEN << >>
    ELSE
      LET b    == At(bytes, i)
          need == IF b < 128 THEN 0
                  ELSE IF b >= 194 /\ b <= 223 THEN 1
                  ELSE IF b >= 224 /\ b <= 239 THEN 2
                  ELSE IF b >= 240 /\ b <= 244 THEN 3
                  ELSE 4
          lo   == IF b = 224 THEN 160 ELSE IF b = 240 THEN 144 ELSE 128
          hi   == IF b = 237 THEN 159 ELSE IF b = 244 THEN 143 ELSE 191
          b2   == At(bytes, i + 1)
          b3   == At(bytes, i + 2)
          b4   == At(bytes, i + 3)
          ok2  == need \in 1..3 /\ b2 >= lo /\ b2 <= hi
          ok3  == ok2 /\ need >= 2 /\ IsCont(b3)
          ok4  == ok3 /\ need >= 3 /\ IsCont(b4)
          good == IF ok4 THEN 3 ELSE IF ok3 THEN 2 ELSE IF ok2 THEN 1 ELSE 0
          cp   == IF need = 0 THEN b
                  ELSE IF need = 1 THEN ((b % 32) * 64) + (b2 % 64)
                  ELSE IF need = 2 THEN ((b % 16) * 4096) + ((b2 % 64) * 64) + (b3 % 64)
                  ELSE ((b % 8) * 262144) + ((b2 % 64) * 4096) + ((b3 % 64) * 64) + (b4 % 64)
      IN  IF need < 4 /\ good = need
          THEN CodeUnits(cp) \o Utf8LossyFrom(bytes, i + need + 1)
          ELSE << 65533 >> \o Utf8LossyFrom(bytes, i + 1 + (IF need = 4 THEN 0 ELSE good))

\* textDecoder.decode(value): a leading byte order mark is dropped.
Utf8Lossy(bytes) ==
    IF Len(bytes) >= 3 /\ bytes[1] = 239 /\ bytes[2] = 187 /\ bytes[3] = 191
    THEN Utf8LossyFrom(bytes, 3)
    ELSE Utf8LossyFrom(bytes, 0)

\* (length << 8) | b on 32-bit integers, for any 32-bit length.
ShiftOr8Any(length, b) == ShiftOr8(length % 16777216, b)

\* The for loop over numLengthBytes octets from data[offset].
RECURSIVE InlineLength(_, _, _)
InlineLength(d, at, n) ==
    IF n = 0 THEN 0
    ELSE ShiftOr8Any(InlineLength(d, at, n - 1), At(d, at + n - 1))

\* One pass through the body of the while loop from offset o: whether it
\* breaks, the record it reads, and the offset it leaves.
Iteration(d, o) ==
    LET tag0   == At(d, o)
        first  == At(d, o + 1)
        short  == first # Undefined /\ first < 128
        n      == IF first = Undefined THEN 0 ELSE first % 128
        length == IF short THEN first ELSE InlineLength(d, o + 2, n)
        at     == IF short THEN o + 2 ELSE o + 2 + n
    IN  IF o + 1 >= Len(d) THEN [break |-> TRUE, offset |-> o + 1, tag |-> tag0, length |-> 0]
        ELSE IF ~short /\ o + 2 + n > Len(d)
        THEN [break |-> TRUE, offset |-> o + 2, tag |-> tag0, length |-> 0]
        ELSE IF at + length > Len(d)
        THEN [break |-> TRUE, offset |-> at, tag |-> tag0, length |-> length]
        ELSE [break |-> FALSE, offset |-> at + length, tag |-> tag0, length |-> length,
              value |-> Slice(d, at, at + length)]

\* The switch (item.tag) of the forEach.
OldDispatch(p, item) ==
    IF item.tag = 64 THEN Put(p, "documentNumber", Utf8Lossy(item.value))
    ELSE IF item.tag = 66 THEN Put(p, "dateOfBirth", Utf8Lossy(item.value))
    ELSE IF item.tag = 68 THEN Put(p, "name", Utf8Lossy(item.value))
    ELSE IF item.tag = 70 THEN Put(p, "surnames", Utf8Lossy(item.value))
    ELSE IF item.tag = 72 THEN Put(p, "sex", Utf8Lossy(item.value))
    ELSE IF item.tag = 76 THEN Put(p, "expiryDate", Utf8Lossy(item.value))
    ELSE IF item.tag = 80
    THEN Put(p, "thumbnailInfo",
             << 74, 80, 69, 71, 50, 48, 48, 48, 32, 73, 109, 97, 103, 101, 32, 40 >>
               \o SignedDecStr(item.length) \o << 32, 98, 121, 116, 101, 115, 41 >>)
    ELSE Put(p, "unknown",
             (IF "unknown" \in DOMAIN p THEN p["unknown"] ELSE << >>)
               \o << [tag |-> << 48, 120 >> \o HexStr(item.tag), length |-> item.length,
                      value |-> HexJoin(item.value, TRUE, << >>)] >>)

\* allTlvItems.forEach over the first n items.
RECURSIVE OldPayload(_, _)
OldPayload(items, n) ==
    IF n = 0 THEN << >> ELSE OldDispatch(OldPayload(items, n - 1), items[n])

\* if (data.length < 12) throw
QrTooShort ==
    /\ pc = "qrstart"
    /\ Len(data) < 12
    /\ Catch("QR data too short")
    /\ UNCHANGED << unit, caller, allTlvItems, data, iterations, offset, header, documentInfo,
                    payload, tag, lengthInfo, lengthAt, signature, loopExit, oobRead >>

\* parseInt(certRefSizeStr, 10) of the characters data[8], data[9].
certRefSize == parseInt(<< At(data, 8), At(data, 9) >>, 10)

\* if (isNaN(certRefSize) || offset + certRefSize > data.length) throw
QrBadCertRef ==
    /\ pc = "qrstart"
    /\ ~(Len(data) < 12)
    /\ certRefSize.nan \/ 10 + certRefSize.val > Len(data)
    /\ offset' = 10
    /\ Catch("Invalid or incomplete certificate reference data.")
    /\ UNCHANGED << unit, caller, allTlvItems, data, iterations, header, documentInfo,
                    payload, tag, lengthInfo, lengthAt, signature, loopExit, oobRead >>

\* The header: ten characters, certRefSize bytes of certificate reference,
\* two dates, docType and docCategory.
QrReadHeader ==
    /\ pc = "qrstart"
    /\ ~(Len(data) < 12)
    /\ ~(certRefSize.nan \/ 10 + certRefSize.val > Len(data))
    /\ LET size == Max(certRefSize.val, 0)
           o    == 10 + size
       IN  /\ header' =
                [magicConstant |-> At(data, 0), version |-> At(data, 1),
                 country |-> Slice(data, 2, 4),
                 signerId |-> [country |-> Slice(data, 4, 6), entity |-> Slice(data, 6, 8),
                               certRef |-> HexJoin(Slice(data, 10, o), TRUE, << >>)],
                 issueDate |-> formatDate(Slice(data, o, o + 3)),
                 signDate |-> formatDate(Slice(data, o + 3, o + 6)),
                 docType |-> At(data, o + 6), docCategory |-> At(data, o + 7)]
           /\ offset' = o + 8
           /\ Reading({o + 6, o + 7})
    /\ pc' = "qrloop"
    /\ UNCHANGED << unit, caller, allTlvItems, data, iterations, documentInfo, payload, tag,
                    lengthInfo, lengthAt, signature, loopExit, ret, error >>

\* while (offset < data.length) is false.
QrLoopExit ==
    /\ pc = "qrloop"
    /\ ~(offset < Len(data))
    /\ pc' = "qrend"
    /\ loopExit' = "exhausted"
    /\ UNCHANGED << unit, caller, allTlvItems, data, iterations, offset, header, documentInfo,
                    payload, tag, lengthInfo, lengthAt, signature, ret, error, oobRead >>

\* An iteration that ends in one of the three break statements.
QrBreak ==
    /\ pc = "qrloop"
    /\ offset < Len(data)
    /\ Iteration(data, offset).break
    /\ tag' = Iteration(data, offset).tag
    /\ offset' = Iteration(data, offset).offset
    /\ iterations' = IF iterations <= Len(data) THEN iterations + 1 ELSE iterations
    /\ pc' = "qrend"
    /\ loopExit' = "break"
    /\ Reading({offset})
    /\ UNCHANGED << unit, caller, allTlvItems, data, header, documentInfo, payload,
                    lengthInfo, lengthAt, signature, ret, error >>

\* An iteration that reads a record: allTlvItems.push({ tag, length, value }),
\* offset += length.
QrPush ==
    /\ pc = "qrloop"
    /\ offset < Len(data)
    /\ ~Iteration(data, offset).break
    /\ Len(allTlvItems) < MaxItems
    /\ LET it == Iteration(data, offset)
       IN  /\ tag' = it.tag
           /\ offset' = it.offset
           /\ allTlvItems' =
                Append(allTlvItems, [tag |-> it.tag, length |-> it.length, value |-> it.value])
    /\ iterations' = IF iterations <= Len(data) THEN iterations + 1 ELSE iterations
    /\ Reading({offset, offset + 1})
    /\ UNCHANGED << unit, caller, data, pc, header, documentInfo, payload, lengthInfo,
                    lengthAt, signature, loopExit, ret, error >>

\* After the loop: the last item is popped as the signature, the others are
\* dispatched; item.tag.toString(16) throws on a tag that is undefined.
QrFinish ==
    /\ pc = "qrend"
    /\ LET n == Len(allTlvItems)
       IN  IF \E i \in 1..(n - 1) : allTlvItems[i].tag = Undefined
           THEN /\ Catch("TypeError")
                /\ UNCHANGED << payload, signature >>
           ELSE /\ signature' =
                     IF n > 0
                     THEN [present |-> TRUE, tag |-> allTlvItems[n].tag,
                           length |-> allTlvItems[n].length,
                           value |-> HexJoin(allTlvItems[n].value, TRUE, << >>)]
                     ELSE NoSignature
                /\ payload' = IF n > 0 THEN OldPayload(allTlvItems, n - 1) ELSE << >>
                /\ Return
    /\ UNCHANGED << unit, caller, allTlvItems, data, iterations, offset, header, documentInfo,
                    tag, lengthInfo, lengthAt, loopExit, oobRead >>

InitOld ==
    /\ data \in OldBuffers
    /\ pc = "qrstart"
    /\ offset = 0
    /\ header = NoHeader
    /\ documentInfo = NoDocumentInfo
    /\ payload = << >>
    /\ tag = Undefined
    /\ lengthInfo = NoCall
    /\ lengthAt = 0
    /\ signature = NoSignature
    /\ loopExit = "none"
    /\ iterations = 0
    /\ ret = "running"
    /\ error = ""
    /\ oobRead = FALSE
    /\ calls = 1
    /\ input = data
    /\ earlier = NoEarlier
    /\ NoUnit
    /\ NoPage
    /\ NoScanner
    /\ allTlvItems = << >>

NextOld ==
    \/ QrTooShort
    \/ QrBadCertRef
    \/ QrReadHeader
    \/ QrLoopExit
    \/ QrBreak
    \/ QrPush
    \/ QrFinish

SpecOld == InitOld /\ [][NextOld]_vars

(***************************************************************************)
(* The scanner: QrScanner                                                  *)
(***************************************************************************)

\* The longest detected text.
MaxTextLen == 3

\* The most onDecodeResult calls in a run.
MaxDetections == 3

\* The characters of a detected text: '0', 'A', 'f', a space, 'G' and a
\* character above U+00FF.
ScanChars == { 48, 65, 102, 32, 71, 321 }

\* result.getText()
DetectedTexts == UNION { [1..n -> ScanChars] : n \in 0..MaxTextLen }

\* /^[0-9A-Fa-f\s]+$/.test(text)
IsHexText(text) ==
    /\ text # << >>
    /\ \A i \in 1..Len(text) :
         \/ text[i] \in 48..57
         \/ text[i] \in 65..70
         \/ text[i] \in 97..102
         \/ IsWhiteSpace(text[i])

\* hexString.replace(/\s/g, '')
RECURSIVE CleanHex(_)
CleanHex(text) ==
    IF text = << >> THEN << >>
    ELSE IF IsWhiteSpace(Head(text)) THEN CleanHex(Tail(text))
    ELSE << Head(text) >> \o CleanHex(Tail(text))

\* hexStringToUint8Array(hexString): ok is FALSE where it throws.
hexStringToUint8Array(hexString) ==
    LET cleanHexString == CleanHex(hexString)
    IN  IF Len(cleanHexString) % 2 # 0 THEN [ok |-> FALSE, bytes |-> << >>]
        ELSE [ok |-> TRUE,
              bytes |-> [k \in 1..(Len(cleanHexString) \div 2) |->
                           parseInt(SubSeq(cleanHexString, (2 * k) - 1, 2 * k), 16).val]]

\* processQrResult(text): the buffer given to onScan, and the value returned.
processQrResult(text) ==
    IF IsHexText(text)
    THEN IF hexStringToUint8Array(text).ok
         THEN [called |-> TRUE, binaryData |-> hexStringToUint8Array(text).bytes,
               returned |-> "true"]
         ELSE [called |-> FALSE, binaryData |-> << >>, returned |-> "false"]
    ELSE [called |-> TRUE, binaryData |-> [i \in 1..Len(text) |-> text[i] % 256],
          returned |-> "true"]

\* An onDecodeResult that hands the buffer over and goes on scanning.
OnDecodeResultNoPause ==
    \E text \in DetectedTexts :
        /\ ~scanComplete
        /\ detections < MaxDetections
        /\ detections' = detections + 1
        /\ result' = text
        /\ processed' = processQrResult(text).returned
        /\ handed' = IF processQrResult(text).called
                     THEN Append(handed, processQrResult(text).binaryData)
                     ELSE handed
        /\ UNCHANGED scanComplete
        /\ UNCHANGED << unit, page, allTlvItems, calls, input, earlier, data, pc, offset,
                        header, documentInfo, payload, tag, lengthInfo, lengthAt, signature,
                        loopExit, iterations, ret, error, oobRead >>

\* useZxing calls onDecodeResult(result) while paused is false:
\* setResult(text), and setScanComplete(true) if processQrResult(text).
OnDecodeResult ==
    \E text \in DetectedTexts :
        /\ ~scanComplete
        /\ detections < MaxDetections
        /\ detections' = detections + 1
        /\ result' = text
        /\ processed' = processQrResult(text).returned
        /\ handed' = IF processQrResult(text).called
                     THEN Append(handed, processQrResult(text).binaryData)
                     ELSE handed
        /\ scanComplete' = IF processQrResult(text).returned = "true" THEN TRUE
                           ELSE scanComplete
        /\ UNCHANGED << unit, page, allTlvItems, calls, input, earlier, data, pc, offset,
                        header, documentInfo, payload, tag, lengthInfo, lengthAt, signature,
                        loopExit, iterations, ret, error, oobRead >>

\* The button of the "Scan Complete!" overlay: setScanComplete(false),
\* setResult(null); a new detection session begins.
HandleRescan ==
    /\ scanComplete
    /\ scanComplete' = FALSE
    /\ result' = Null
    /\ handed' = << >>
    /\ UNCHANGED << processed, detections >>
    /\ UNCHANGED << unit, page, allTlvItems, calls, input, earlier, data, pc, offset,
                    header, documentInfo, payload, tag, lengthInfo, lengthAt, signature,
                    loopExit, iterations, ret, error, oobRead >>

NextScanner ==
    \/ OnDecodeResult
    \/ HandleRescan

SpecScanner == InitPage /\ [][NextScanner]_vars

(***************************************************************************)
(* Claims                                                                  *)
(***************************************************************************)

\* C1: every decodeMiDNI call terminates after finitely many steps of the
\* payload loop.  The loop is deterministic in (data, offset) and an
\* iteration at a negative offset throws, so a call terminates exactly when
\* no iteration starts twice at the same offset: it begins at most
\* len(data) iterations.
DecodeTerminates == iterations <= Len(data)

\* C2: the cursor stays within 0..len(buffer) at every step and no index
\* outside the buffer is read as a field value.
CursorWithinBuffer == offset >= 0 /\ offset <= Len(data) /\ ~oobRead

\* C3: a buffer shorter than 12 bytes is rejected: the decode fails with no
\* partial result, the cursor never moves and no index outside the buffer is
\* read.
ShortBufferRejected ==
    Len(data) < 12 =>
        /\ pc \in {"start", "done"}
        /\ ~oobRead
        /\ offset = 0
        /\ header = NoHeader /\ payload = << >> /\ ~signature.present
        /\ pc = "done" => (ret = "null" /\ error = "Datos insuficientes")

ShortBufferRejectedWitness ==
    Len(data) < 12 /\ Len(data) > 1 /\ At(data, 0) = 220 /\ pc = "done" /\ ret = "null"

\* C4: a malformed DER length in a payload record (indefinite form, more
\* than 4 octets, too few bytes for the octets) is not fatal: the decode
\* returns a result, with the payload of the records before it.
MalformedLengthNonFatal ==
    (/\ pc = "done"
     /\ loopExit = "throw"
     /\ error \in {"IndefiniteLength", "TooManyLengthBytes", "NotEnoughLengthBytes"})
    => ret = "result"

\* C5: a payload record whose declared length (short or long form) exceeds
\* the bytes left stops the loop and the decode returns a result with the
\* payload of the earlier records.
OverrunKeepsResult ==
    (/\ pc = "done"
     /\ \/ loopExit = "overrun"
        \/ loopExit = "throw" /\ error = "LengthExceedsData")
    => ret = "result"

\* 256^n for n <= 3.
Pow256(n) == IF n = 0 THEN 1 ELSE IF n = 1 THEN 256 ELSE IF n = 2 THEN 65536 ELSE 16777216

\* C6: every parseDERLength call on a long-form length with k in 1..4 whose
\* octets are present returns the unsigned big-endian value of the k octets
\* (not negative, also for k = 4 with a first octet >= 0x80) and the offset
\* offset + 1 + k.
LongFormUnsigned ==
    LET o == lengthAt
        b == At(data, o)
        k == b % 128
        r == lengthInfo
    IN  (r # NoCall /\ b >= 128 /\ k \in 1..4 /\ o + k < Len(data)) =>
            /\ r.ok
            /\ r.length >= 0
            /\ \A j \in 1..k : (r.length \div Pow256(k - j)) % 256 = At(data, o + j)
            /\ k < 4 => r.length < Pow256(k)
            /\ r.newOffset = o + 1 + k

\* C7: for every length octet b < 0x80 at an in-range offset, parseDERLength
\* returns length b and offset + 1, whatever follows.  (Checked on every
\* offset of every decoded buffer, once the decode is over.)
ShortFormLength ==
    pc = "done" =>
        \A o \in 0..(Len(data) - 1) :
            At(data, o) < 128 =>
                /\ parseDERLength(data, o).ok
                /\ parseDERLength(data, o).length = At(data, o)
                /\ parseDERLength(data, o).newOffset = o + 1

ShortFormLengthWitness ==
    /\ pc = "value"
    /\ lengthInfo.ok
    /\ At(data, lengthAt) > 0 /\ At(data, lengthAt) < 128
    /\ lengthInfo.length = At(data, lengthAt)
    /\ offset = lengthAt + 1
    /\ offset < Len(data)

\* C8: a first length octet >= 0x80 whose low 7 bits are 0 or more than 4
\* makes parseDERLength throw its invalid-length error, for every buffer and
\* offset, without returning a length and without reading outside the buffer.
\* (Checked on every offset of every decoded buffer, once the decode is over.)
InvalidOctetCountRejected ==
    pc = "done" =>
        \A o \in 0..(Len(data) - 1) :
            LET b == At(data, o)
                r == parseDERLength(data, o)
            IN  (b >= 128 /\ (b % 128 = 0 \/ b % 128 > 4)) =>
                    /\ ~r.ok
                    /\ r.error =
                         (IF b % 128 = 0 THEN "IndefiniteLength" ELSE "TooManyLengthBytes")
                    /\ DERReads(data, o) \subseteq 0..(Len(data) - 1)

InvalidOctetCountRejectedWitness ==
    /\ pc = "done"
    /\ ~lengthInfo.ok
    /\ lengthInfo.error = "IndefiniteLength"
    /\ At(data, lengthAt) = 128
    /\ ret = "null"

\* C9 as claimed: when the TLV stream after a valid header ends with a
\* well-formed record tagged 0xFF, that record's value (in hex, with its
\* declared length) is the result's signature and the payload holds the
\* earlier records only.
TrailingSignatureRouted ==
    (pc = "done" /\ EndsWithSignatureRecord) => TrailingRecordIsSignature

\* C9 as amended: the same, for streams with no earlier record tagged 0xFF.
OnlySignatureRecordRouted ==
    (/\ pc = "done"
     /\ EndsWithSignatureRecord
     /\ \A i \in 1..(Len(Stream.recs) - 1) : Stream.recs[i].tag # 255)
    => TrailingRecordIsSignature

OnlySignatureRecordRoutedWitness ==
    /\ pc = "done"
    /\ EndsWithSignatureRecord
    /\ Len(Stream.recs) >= 2
    /\ \A i \in 1..(Len(Stream.recs) - 1) : Stream.recs[i].tag # 255
    /\ signature.present
    /\ signature.length = 2
    /\ "documentNumber" \in DOMAIN payload

\* C10: once the payload loop is left without a throw, the decode returns
\* the header and payload whatever follows: a missing or malformed
\* signature record only leaves the signature absent.
SignatureStepNonFatal ==
    (pc = "done" /\ loopExit \in {"exhausted", "sigtag", "overrun"}) => ret = "result"

\* The tags the switch of the payload loop has a case for.
KnownTag(t) ==
    TextField(t) # "" \/ t \in {80, 112, 114, 116, 118, 120, 122}

\* The payload fields the cases of the switch write.
KnownFields ==
    { TextField(t) : t \in {64, 66, 68, 70, 72, 76, 96, 98, 100, 102, 128} }
        \cup {"image", "isAdult"}

\* The well-formed stream has a payload record (one before any record tagged
\* 0xFF) whose tag has no case in the switch.
HasUnknownRecord ==
    /\ ValidHeader(data)
    /\ Stream.ok
    /\ \E i \in 1..Len(Stream.recs) :
          /\ \A j \in 1..i : Stream.recs[j].tag # SignatureTag
          /\ ~KnownTag(Stream.recs[i].tag)

\* C11: when a well-formed payload record has a tag that is neither a known
\* field tag nor the signature tag, the result keeps an entry for it: the
\* returned payload holds something besides the fields of the known tags.
UnknownTagsPreserved ==
    (pc = "done" /\ ret = "result" /\ HasUnknownRecord) =>
        \E f \in DOMAIN payload : f \notin KnownFields

\* The stream after the valid header is exactly one well-formed record, and
\* its tag is one of the text tags.
SingleTextRecord ==
    /\ ValidHeader(data)
    /\ Stream.ok
    /\ Len(Stream.recs) = 1
    /\ TextField(Stream.recs[1].tag) # ""

RepeatedDecodeEqual ==
    /\ data = input
    /\ (pc = "done" /\ earlier.known /\ data = earlier.data) => Result = earlier.result

\* A third call, on the bytes of the first after a call on other bytes,
\* returns a result with a payload and a signature.
RepeatedDecodeEqualWitness ==
    /\ pc = "done"
    /\ calls = 3
    /\ earlier.known /\ earlier.others = 1
    /\ data = earlier.data
    /\ ret = "result"
    /\ "documentNumber" \in DOMAIN payload
    /\ signature.present

\* The days of the twelve months of a common year.
MonthLength == << 31, 28, 31, 30, 31, 30, 31, 31, 30, 31, 30, 31 >>

\* (y, m, d) is a day of the Gregorian calendar, for 1 <= m <= 12, d >= 1.
RealDate(y, m, d) ==
    IF m = 2 /\ y % 4 = 0 /\ (y % 100 # 0 \/ y % 400 = 0)
    THEN d <= 29
    ELSE d <= MonthLength[m]

\* The code units of the digits 0-9 and the letters A-F.
UpperHexDigits == << 48, 49, 50, 51, 52, 53, 54, 55, 56, 57, 65, 66, 67, 68, 69, 70 >>

\* A byte as two upper-case hexadecimal digits.
HexPair(b) == << UpperHexDigits[(b \div 16) + 1], UpperHexDigits[(b % 16) + 1] >>

\* n < 100 as two decimal digits.
TwoDigits(n) == << 48 + (n \div 10), 48 + (n % 10) >>

\* 1000 <= n < 10000 as four decimal digits.
FourDigits(n) == TwoDigits(n \div 100) \o TwoDigits(n % 100)

\* What the packed date rule of the format gives for three bytes.
PackedDate(b) ==
    LET V    == (b[1] * 65536) + (b[2] * 256) + b[3]
        MM   == V \div 1000000
        DD   == (V \div 10000) % 100
        YYYY == V % 10000
    IN  IF /\ 1 <= MM /\ MM <= 12
           /\ 1 <= DD /\ DD <= 31
           /\ 1900 <= YYYY /\ YYYY <= 2100
           /\ RealDate(YYYY, MM, DD)
        THEN TwoDigits(DD) \o << 45 >> \o TwoDigits(MM) \o << 45 >> \o FourDigits(YYYY)
        ELSE << 91 >> \o HexPair(b[1]) \o << 32 >> \o HexPair(b[2]) \o << 32 >>
               \o HexPair(b[3]) \o << 93 >>

\* C14: for every 3-byte input, decodeMiDNIHeaderDate returns: 'DD-MM-YYYY'
\* exactly when the 8-digit decimal of the 24-bit value, read as MM DD YYYY,
\* is within the ranges and a real calendar date, and the three bytes in
\* upper-case hex inside brackets otherwise.
HeaderDateDecoded ==
    (fn = "decodeMiDNIHeaderDate" /\ out.done /\ Len(arg) = 3) =>
        out.value = PackedDate(arg)

\* The leap day 02292024 decodes to "29-02-2024".
HeaderDateDecodedWitness ==
    /\ fn = "decodeMiDNIHeaderDate"
    /\ out.done
    /\ arg = Bytes3(2292024)
    /\ out.value = << 50, 57, 45, 48, 50, 45, 50, 48, 50, 52 >>

\* The 24-bit big-endian value of three bytes.
Value24(b) == (b[1] * 65536) + (b[2] * 256) + b[3]

\* "22-07-1977"
Date22071977 == << 50, 50, 45, 48, 55, 45, 49, 57, 55, 55 >>

\* C15 as claimed: the three bytes built for the value 22071977 decode to
\* "22-07-1977".  22071977 is above 2^24 - 1 = 16777215, so no three bytes
\* hold it; the three bytes written for it hold its low 24 bits.
PackedDate22071977 ==
    (/\ fn = "decodeMiDNIHeaderDate" /\ out.done /\ Len(arg) = 3
     /\ Value24(arg) = 22071977 % 16777216)
    => out.value = Date22071977

\* C15 as amended: the three bytes whose 24-bit value is 7221977 (the date
\* written month first, 07221977) decode to "22-07-1977".
PackedDate07221977 ==
    (/\ fn = "decodeMiDNIHeaderDate" /\ out.done /\ Len(arg) = 3
     /\ Value24(arg) = 7221977)
    => out.value = Date22071977

PackedDate07221977Witness ==
    /\ fn = "decodeMiDNIHeaderDate"
    /\ out.done
    /\ arg = << 110, 50, 217 >>
    /\ Value24(arg) = 7221977
    /\ out.value = Date22071977

\* C16: C40 round trip: a string over space, 0-9, A-Z with no leading or
\* trailing space, packed three characters per word with an incomplete last
\* group padded with shift code 0, is what decodeC40 returns for the bytes.
C40RoundTrip ==
    (fn = "decodeC40" /\ out.done /\ plain # NoPlain) => out.value = plain

\* "ES" is packed as 75 81 and decoded back.
C40RoundTripWitness ==
    /\ fn = "decodeC40"
    /\ out.done
    /\ plain = << 69, 83 >>
    /\ arg = << 117, 129 >>
    /\ out.value = << 69, 83 >>

\* The words of a byte array up to the first padding sentinel (0x0000 or
\* 0xFE00), an unpaired last byte left out.
RECURSIVE C40Groups(_)
C40Groups(b) ==
    IF Len(b) < 2 THEN << >>
    ELSE LET W == (b[1] * 256) + b[2]
         IN  IF W = 0 \/ W = 65024 THEN << >>
             ELSE << W >> \o C40Groups(SubSeq(b, 3, Len(b)))

\* The character of one value Ui: its table character in 3..39, nothing
\* otherwise.
C40Emit(u) == IF u \in 3..39 THEN << C40Alphabet[u - 2] >> ELSE << >>

\* The characters of the groups, U1, U2, U3 of each in order.
RECURSIVE C40Text(_)
C40Text(ws) ==
    IF ws = << >> THEN << >>
    ELSE LET U == ws[1] - 1
         IN  C40Emit(U \div 1600) \o C40Emit((U % 1600) \div 40) \o C40Emit(U % 40)
               \o C40Text(Tail(ws))

\* C17: for every byte array decodeC40 returns the trimmed concatenation of
\* the characters its 2-byte groups give up to the first sentinel: of each
\* group, every Ui in 3..39 emits its table character, in the order U1, U2,
\* U3, and an unpaired last byte emits nothing.
C40GroupsDecoded ==
    (fn = "decodeC40" /\ out.done) => out.value = Trim(C40Text(C40Groups(arg)))

\* The buffer has at least 12 bytes, the magic byte and version byte 0x03,
\* and its first 4 signer bytes decode to fewer than 6 characters.
ShortSigner ==
    /\ Len(data) >= 12
    /\ At(data, 0) = 220
    /\ At(data, 1) = 3
    /\ Len(decodeC40(SubSeq(data, 5, 8))) < 6

\* C18: such a buffer fails the whole decode: nothing past the country is
\* read, and the call returns null.
ShortSignerRejected ==
    ShortSigner =>
        /\ pc \in {"start", "signer", "done"}
        /\ header.signerAndCertRef = << >> /\ header.issueDate = << >>
        /\ documentInfo = NoDocumentInfo /\ payload = << >> /\ ~signature.present
        /\ pc = "done" => ret = "null"

ShortSignerRejectedWitness ==
    /\ ShortSigner
    /\ pc = "done"
    /\ ret = "null"
    /\ error = "SignerTooShort"
    /\ header.country = << 69, 83 >>

\* The buffer of the end-to-end scenario: magic byte, a version with the
\* fixed-size signer, country "ES" (C40: 75 81), two valid packed dates,
\* type 7, category 9, then exactly one document-number record and one
\* signature record.
EndToEndBuffer ==
    /\ ValidHeader(data)
    /\ At(data, 1) # 3
    /\ SubSeq(data, 3, 4) = << 117, 129 >>
    /\ PackedDate(SubSeq(data, 11, 13))[1] # 91
    /\ PackedDate(SubSeq(data, 14, 16))[1] # 91
    /\ At(data, 16) = 7 /\ At(data, 17) = 9
    /\ Stream.ok
    /\ Len(Stream.recs) = 2
    /\ Stream.recs[1].tag = 64
    /\ Stream.recs[2].tag = 255

\* C19: for such a buffer the decode returns a header with country "ES", the
\* two dates and docType 7 labelled "simple", a payload whose only field is
\* the document number, and the signature of the last record.
EndToEnd ==
    (pc = "done" /\ EndToEndBuffer) =>
        LET doc == Stream.recs[1]
            sig == Stream.recs[2]
        IN  /\ ret = "result"
            /\ header.magicConstant = 220
            /\ header.country = << 69, 83 >>
            /\ header.issueDate = PackedDate(SubSeq(data, 11, 13))
            /\ header.signDate = PackedDate(SubSeq(data, 14, 16))
            /\ header.docType = 7 /\ header.docCategory = 9
            /\ documentInfo.type = "simple"
            /\ DOMAIN payload = {"documentNumber"}
            /\ payload["documentNumber"] =
                 decodeText(SubSeq(data, doc.valueAt + 1, doc.valueAt + doc.length))
            /\ signature.present
            /\ signature.length = sig.length
            /\ Len(signature.data) = 2 * sig.length

\* Header, 40 03 'A' 'B' 'C', FF 02 AB CD: document number "ABC", signature
\* "abcd".
EndToEndWitness ==
    /\ pc = "done"
    /\ EndToEndBuffer
    /\ data = HeaderFixed \o << 64, 3, 65, 66, 67 >> \o << 255, 2, 171, 205 >>
    /\ ret = "result"
    /\ documentInfo.type = "simple"
    /\ payload["documentNumber"] = << 65, 66, 67 >>
    /\ signature = [present |-> TRUE, length |-> 2, data |-> << 97, 98, 99, 100 >>]

\* C20: the decode moves strictly forward: from one step of a decodeMiDNI
\* call to the next the cursor never decreases, except for the one-byte
\* rewind taken when the payload loop reads the signature tag 0xFF.
CursorNeverGoesBack ==
    [][ \/ offset' >= offset
        \/ pc = "tag" /\ tag = SignatureTag /\ pc' = "sig" /\ offset' = offset - 1 ]_vars

\* a and b have a valid header and differ at most in the docType and
\* docCategory bytes.
SameButType(a, b) ==
    /\ ValidHeader(a)
    /\ Len(a) = Len(b)
    /\ \A i \in 1..Len(a) : i \notin {PayloadStart(a) - 1, PayloadStart(a)} => a[i] = b[i]

\* Both calls of a pair fail, or both succeed with the same payload and
\* signature.
SameOutcomeForEveryType ==
    (pc = "done" /\ earlier.known /\ SameButType(earlier.data, data)) =>
        /\ ret = earlier.result.ret
        /\ Result.payload = earlier.result.payload
        /\ Result.signature = earlier.result.signature

\* C21 as claimed: document type and category are a lookup, never a
\* constraint: two buffers that differ only in these two bytes fail both or
\* succeed both with the same payload and signature, and the label is
\* 'simple' for 7, 'completo' for 8, 'edad' for 9 and the generic unknown
\* label for every other docType.
DocTypeIsLookup ==
    /\ SameOutcomeForEveryType
    /\ (pc = "done" /\ ret = "result") =>
          documentInfo.type =
            (IF header.docType = 7 THEN "simple"
             ELSE IF header.docType = 8 THEN "completo"
             ELSE IF header.docType = 9 THEN "edad"
             ELSE "desconocido")

\* C21 as amended: the same, with 'edad' for 9 and for 64.
DocTypeIsLookupWith64 ==
    /\ SameOutcomeForEveryType
    /\ (pc = "done" /\ ret = "result") =>
          documentInfo.type =
            (IF header.docType = 7 THEN "simple"
             ELSE IF header.docType = 8 THEN "completo"
             ELSE IF header.docType \in {9, 64} THEN "edad"
             ELSE "desconocido")

\* The second call of a pair, on a type with no case and another category,
\* returns the payload and signature of the first.
DocTypeIsLookupWith64Witness ==
    /\ pc = "done"
    /\ calls = 2
    /\ earlier.known
    /\ SameButType(earlier.data, data)
    /\ earlier.result.header.docType = 7
    /\ header.docType = 255 /\ header.docCategory = 0
    /\ ret = "result"
    /\ documentInfo.type = "desconocido"
    /\ "documentNumber" \in DOMAIN payload
    /\ signature.present

\* The first non-empty result of the fallbacks after method 1: the manual
\* walk, Latin-1, printable ASCII (when it is not question marks only), and
\* the bracketed hex rendering at the end.
TextFallback(b) ==
    IF Trim(ManualWalk(b, 0)) # << >> THEN Trim(ManualWalk(b, 0))
    ELSE IF Trim(Latin1Decode(b)) # << >> THEN Trim(Latin1Decode(b))
    ELSE IF \E k \in 1..Len(AsciiExtended(b)) : AsciiExtended(b)[k] # 63
    THEN AsciiExtended(b)
    ELSE << 91 >> \o HexJoin(b, FALSE, << 32 >>) \o << 93 >>

\* The bytes are valid UTF-8 with content that is not white space only.
ValidUtf8Text(b) == Utf8Strict(b).ok /\ Trim(Utf8Strict(b).str) # << >>

\* C22 as claimed: decodeText returns a string for every byte array; the
\* empty string only for empty input; the trimmed strict UTF-8 decoding
\* whenever the bytes are valid UTF-8 with non-whitespace content; otherwise
\* the first non-empty result of the ordered fallbacks.
TextDecodedInOrder ==
    (fn = "decodeText" /\ out.done) =>
        /\ (out.value = << >>) <=> (arg = << >>)
        /\ arg # << >> =>
             out.value = (IF ValidUtf8Text(arg) THEN Trim(Utf8Strict(arg).str)
                          ELSE TextFallback(arg))

\* C22 as amended: the strict UTF-8 decoding is returned when it also holds
\* no U+FFFD character; with one, the fallbacks are taken.
TextDecodedInOrderNoFFFD ==
    (fn = "decodeText" /\ out.done) =>
        /\ (out.value = << >>) <=> (arg = << >>)
        /\ arg # << >> =>
             out.value =
               (IF ValidUtf8Text(arg) /\ ~(\E k \in 1..Len(Utf8Strict(arg).str) :
                                              Utf8Strict(arg).str[k] = 65533)
                THEN Trim(Utf8Strict(arg).str)
                ELSE TextFallback(arg))

\* 01 C3 B1 41 is valid UTF-8 and is returned whole, control character
\* included.
TextDecodedInOrderNoFFFDWitness ==
    /\ fn = "decodeText"
    /\ out.done
    /\ arg = << 1, 195, 177, 65 >>
    /\ out.value = << 1, 241, 65 >>

\* The buffer has the shape of the built-in example: version byte 0x03, a
\* signer block whose size indicator gives the size of the block, and a
\* stream of well-formed records with distinct text tags closed by one
\* record tagged 0xFF that ends at the end of the buffer.
ExampleShape ==
    /\ ValidHeader(data)
    /\ At(data, 1) = 3
    /\ SignerBlockOf(data).size > 4
    /\ Stream.ok
    /\ Stream.recs # << >>
    /\ LET n == Len(Stream.recs)
       IN  /\ Stream.recs[n].tag = 255
           /\ \A i \in 1..(n - 1) : TextField(Stream.recs[i].tag) # ""
           /\ \A i, j \in 1..(n - 1) : i # j => Stream.recs[i].tag # Stream.recs[j].tag

\* The result holds every record's own value, decoded, and the signature of
\* the declared length.
ExampleFields ==
    LET n    == Len(Stream.recs)
        last == Stream.recs[n]
    IN  /\ ret = "result"
        /\ \A i \in 1..(n - 1) :
             LET r == Stream.recs[i]
             IN  /\ TextField(r.tag) \in DOMAIN payload
                 /\ payload[TextField(r.tag)] =
                      decodeText(SubSeq(data, r.valueAt + 1, r.valueAt + r.length))
        /\ signature.present
        /\ signature.length = last.length

\* C23: for every buffer shaped like the built-in example the decode returns
\* a result, each record's field holds the decoding of its own value bytes,
\* signature.length is the declared length, and the cursor finishes at the
\* end of the buffer.
ExampleShapeDecoded ==
    (pc = "done" /\ ExampleShape) => (ExampleFields /\ offset = Len(data))

\* The same without the final cursor position.
ExampleShapeFieldsDecoded ==
    (pc = "done" /\ ExampleShape) => ExampleFields

\* The size the signer block is said to have: for version byte 0x03, with n
\* the hexadecimal value of the last two characters of the decoded 4-byte
\* prefix, 2*ceil((6+n)/3) when 1 <= n <= 64 and the block fits, else 4; for
\* every other version 6.
ClaimedSignerSize ==
    LET prefix == decodeC40(Slice(data, 4, 8))
        n      == parseInt(SubSeq(prefix, Len(prefix) - 1, Len(prefix)), 16)
        size   == 2 * ((6 + n.val + 2) \div 3)
    IN  IF At(data, 1) = 3
        THEN IF ~n.nan /\ n.val >= 1 /\ n.val <= 64 /\ 4 + size <= Len(data)
             THEN size
             ELSE 4
        ELSE 6

\* C24: once the signer block is read the cursor stands ClaimedSignerSize
\* bytes after offset 4, and the first payload tag is read 8 bytes further
\* on (offset 18 for every version byte but 0x03).
HeaderByteAccounting ==
    /\ pc = "dates" => offset = 4 + ClaimedSignerSize
    /\ (pc = "loop" /\ iterations = 0) => offset = 4 + ClaimedSignerSize + 8
    /\ (pc = "tag" /\ iterations = 1) => offset - 1 = 4 + ClaimedSignerSize + 8
    /\ (pc = "tag" /\ iterations = 1 /\ At(data, 1) # 3) => offset - 1 = 18

\* Signer "ESPN04" + "AAAA": n = 4, a block of 2*ceil(10/3) = 8 bytes, and
\* the first tag, 0x40, is read at offset 4 + 8 + 8 = 20.
HeaderByteAccountingWitness ==
    /\ pc = "tag"
    /\ iterations = 1
    /\ data = << 220, 3 >> \o CountryES \o << 117, 158, 169, 105, 89, 191, 87, 129 >>
                \o HeaderEnd \o << 64, 1, 65 >>
    /\ ClaimedSignerSize = 8
    /\ offset = 21
    /\ tag = 64

\* The size indicator of "ESPNPN" is unparsable: the block is 4 bytes and the
\* first tag is read at offset 16.
UnparsableSizeReached ==
    /\ pc = "tag"
    /\ iterations = 1
    /\ SubSeq(data, 5, 8) = << 117, 158, 173, 100 >>
    /\ header.signerAndCertRef = << 69, 83, 80, 78, 80, 78 >>
    /\ offset = 17

\* C25: a buffer whose first byte is not 0xDC (or that has no first byte) is
\* answered with null, whatever follows, and every result carries
\* header.magicConstant = 0xDC.
MagicChecked ==
    /\ (pc = "done" /\ (Len(data) = 0 \/ At(data, 0) # 220)) => ret = "null"
    /\ ret = "result" => header.magicConstant = 220

\* A full header and a record behind a first byte 0x00: refused on the magic
\* byte, with nothing read.
MagicCheckedWitness ==
    /\ pc = "done"
    /\ data = << 0 >> \o Tail(HeaderFixed) \o << 64, 1, 65 >>
    /\ ret = "null"
    /\ error = "No es un QR miDNI valido"
    /\ header = NoHeader
    /\ offset = 0

\* C26: when the payload loop stops on a record whose declared length
\* overruns the buffer, the result carries no signature: the bytes of the
\* truncated record are never read as a signature record.
NoSignatureFromTruncatedRecord ==
    (pc = "done" /\ loopExit = "overrun") => ~signature.present

\* C27: whenever no handleScan call is running, decodedData is what
\* decodeMiDNI returned for exactly the bytes in scannedData (null when that
\* decode failed), and both are null before the first processed scan.
DecodedMatchesScanned ==
    ~handling =>
        IF scannedData = Null
        THEN decodedData = NullResult /\ scans = 0
        ELSE /\ scannedData = data
             /\ pc = "done"
             /\ decodedData = Result
             /\ (ret = "null" <=> decodedData = NullResult)

\* A second scan of 11 bytes, after a first scan that was decoded: the raw
\* bytes are kept and decodedData is null.
DecodedMatchesScannedWitness ==
    /\ ~handling
    /\ scans = 2
    /\ scannedData = SubSeq(HeaderFixed, 1, 11)
    /\ decodedData = NullResult
    /\ ret = "null"
    /\ earlier.known = FALSE
    /\ scanText = SubSeq(HeaderFixed, 1, 11)
    /\ lastProcessedData = << 49, 49, 45 >> \o SubSeq(HeaderFixed, 1, 11)

\* C28: a handleScan call leaves scannedData, decodedData and
\* lastProcessedData alone (and decodes nothing) exactly when the string it
\* is given is the string of the last processed scan; every other string is
\* decoded.
ScanIgnoredIffSame ==
    [][ scans' = scans + 1 =>
          ((~handling' /\ UNCHANGED << scannedData, decodedData, lastProcessedData >>)
             <=> scanText' = processedText) ]_vars

\* C29: every iteration of the TLV loop of decodeQrData that reads a record
\* leaves the offset further on than it found it, so that the loop ends and
\* collects finitely many records.
EarlierLoopAdvances ==
    [][ Len(allTlvItems') = Len(allTlvItems) + 1 => offset' > offset ]_vars

OddHexRefused ==
    /\ detections = 1
    /\ result = << 48, 65, 102 >>
    /\ processed = "false"
    /\ ~scanComplete
    /\ handed = << >>

====
